---------------------------- MODULE Spec2Model ----------------------------
(***************************************************************************)
(* A model of the text-game engine of src/data/games: the object tree      *)
(* (GameObject / Container / Device), the action catalog                   *)
(* (generatePossibleActions) and the turn engine (step = step_action,      *)
(* step_tick, step_calculate_score), with the game content of              *)
(* dishwasher.py.  A session is driven through its public methods:         *)
(* step(actionStr) and generatePossibleActions().                          *)
(*                                                                         *)
(* Names, referents, command strings and observations are the strings the  *)
(* code builds.                                                            *)
(***************************************************************************)
EXTENDS Integers, Sequences, FiniteSets, TLC

VARIABLES
    UUID,             \* the module-level id counter
    classOf,          \* type(obj) of every object created so far
    name,             \* obj.name
    parentContainer,  \* obj.parentContainer
    contains,         \* obj.contains, an ordered list
    properties,       \* obj.properties
    score,            \* TextGame.score
    gameOver,         \* TextGame.gameOver
    gameWon,          \* TextGame.gameWon
    observationStr,   \* TextGame.observationStr
    possibleActions,  \* TextGame.possibleActions
    reward,           \* the reward returned by the last call of step
    session           \* the other fields of the TextGame object

vars == <<UUID, classOf, name, parentContainer, contains, properties, score,
          gameOver, gameWon, observationStr, possibleActions, reward, session>>

\* Python's None, for object references
None == -1

\* The value of the uuid counter at which a session creates no more objects
MaxUUID == 10

\* The ids an object may have: below MaxUUID where objects are created during
\* the session, and 0 .. 11 in the largest world, that of balance-scale-weigh.py
Ids == 0 .. (MaxUUID + 1)

\* The objects of the tree as one value: what the handlers read and write.
World == [UUID |-> UUID, classOf |-> classOf, name |-> name, parentContainer |-> parentContainer,
          contains |-> contains, properties |-> properties]

NoProperties == [isContainer |-> FALSE, isMoveable |-> FALSE]

EmptyWorld == [UUID |-> 0,
               classOf |-> [o \in Ids |-> "None"],
               name |-> [o \in Ids |-> ""],
               parentContainer |-> [o \in Ids |-> None],
               contains |-> [o \in Ids |-> <<>>],
               properties |-> [o \in Ids |-> NoProperties]]

-----------------------------------------------------------------------------
(* GameObject *)

\* A constructor that leaves the uuid counter as it is
NewObject_SameId(w, cls, objName, props) ==
    [w EXCEPT !.classOf[w.UUID] = cls,
              !.name[w.UUID] = objName \o " (ID: " \o ToString(w.UUID) \o ")",
              !.parentContainer[w.UUID] = None,
              !.contains[w.UUID] = <<>>,
              !.properties[w.UUID] = props]

\* GameObject.__init__ and the subclass constructors: the new object takes the
\* next uuid, has no parent, no children and the property bag of its class.
NewObject(w, cls, objName, props) ==
    [w EXCEPT !.UUID = @ + 1,
              !.classOf[w.UUID] = cls,
              !.name[w.UUID] = objName \o " (ID: " \o ToString(w.UUID) \o ")",
              !.parentContainer[w.UUID] = None,
              !.contains[w.UUID] = <<>>,
              !.properties[w.UUID] = props]

hasProperty(w, o, propertyName) == propertyName \in DOMAIN w.properties[o]

\* getProperty(name) == value; a missing property reads None, which equals
\* neither True nor False
getProperty(w, o, propertyName, value) ==
    /\ hasProperty(w, o, propertyName)
    /\ w.properties[o][propertyName] = value

\* list.remove(x): removes the first occurrence of x
RemoveFirst(s, x) ==
    LET i == CHOOSE i \in 1 .. Len(s) : s[i] = x /\ \A j \in 1 .. (i - 1) : s[j] # x
    IN  SubSeq(s, 1, i - 1) \o SubSeq(s, i + 1, Len(s))

\* InclinedPlane.removeObject of inclined-plane.py pops the object's name from
\* the plane's record of ticks before the object leaves
removeObject(w, self, obj) ==
    LET w0 == IF w.classOf[self] = "InclinedPlane"
              THEN [w EXCEPT !.properties[self].objects =
                               [n \in DOMAIN @ \ {w.name[obj]} |-> @[n]]]
              ELSE w
    IN  [w0 EXCEPT !.contains[self] = RemoveFirst(@, obj),
                   !.parentContainer[obj] = None]

removeSelfFromContainer(w, self) ==
    IF w.parentContainer[self] # None
    THEN removeObject(w, w.parentContainer[self], self)
    ELSE w

\* InclinedPlane.addObject of inclined-plane.py starts the object's count of
\* ticks at 0 before the object arrives
addObject(w, self, obj) ==
    LET w0 == IF w.classOf[self] = "InclinedPlane"
              THEN [w EXCEPT !.properties[self].objects =
                               [n \in DOMAIN @ \cup {w.name[obj]} |->
                                  IF n = w.name[obj] THEN 0 ELSE @[n]]]
              ELSE w
        w1 == removeSelfFromContainer(w0, obj)
    IN  [w1 EXCEPT !.contains[self] = Append(@, obj),
                   !.parentContainer[obj] = self]

RECURSIVE Concat(_)
Concat(ss) == IF ss = <<>> THEN <<>> ELSE Head(ss) \o Concat(Tail(ss))

\* self.left and self.right of a BalanceScale (balance-scale-weigh.py): the two
\* containers its constructor creates right after the scale itself
BalanceScale_left(self) == self + 1
BalanceScale_right(self) == self + 2

\* Pre-order list of everything below self.  A BalanceScale lists its two sides
\* and what is on them instead of its own children.
RECURSIVE getAllContainedObjectsRecursive(_, _)
getAllContainedObjectsRecursive(w, self) ==
    IF w.classOf[self] = "BalanceScale"
    THEN << BalanceScale_left(self), BalanceScale_right(self) >>
         \o getAllContainedObjectsRecursive(w, BalanceScale_left(self))
         \o getAllContainedObjectsRecursive(w, BalanceScale_right(self))
    ELSE Concat([i \in 1 .. Len(w.contains[self]) |->
                   <<w.contains[self][i]>>
                   \o getAllContainedObjectsRecursive(w, w.contains[self][i])])

Range(s) == {s[i] : i \in 1 .. Len(s)}

\* The result of a method that returns (observation, success): the world it
\* leaves, the observation, the success flag, and whether the caller's tuple
\* unpacking raises (the length of the returned tuple is not the caller's).
\* `bounded` marks a call that would create an object beyond MaxUUID: the model
\* does not take such a step.
Result(w, obs, success) ==
    [w |-> w, obs |-> obs, success |-> success, raises |-> FALSE, bounded |-> FALSE]

-----------------------------------------------------------------------------
(* Container *)

ContainerProperties ==
    [isContainer |-> TRUE, isMoveable |-> TRUE, isOpenable |-> FALSE,
     isOpen |-> TRUE, containerPrefix |-> "in"]

openContainer(w, self) ==
    IF ~ getProperty(w, self, "isOpenable", TRUE)
    THEN Result(w, "The " \o w.name[self] \o " can't be opened.", FALSE)
    ELSE IF getProperty(w, self, "isOpen", TRUE)
    THEN Result(w, "The " \o w.name[self] \o " is already open.", FALSE)
    ELSE Result([w EXCEPT !.properties[self].isOpen = TRUE],
                "The " \o w.name[self] \o " is now open.", TRUE)

closeContainer(w, self) ==
    IF ~ getProperty(w, self, "isOpenable", TRUE)
    THEN Result(w, "The " \o w.name[self] \o " can't be closed.", FALSE)
    ELSE IF ~ getProperty(w, self, "isOpen", TRUE)
    THEN Result(w, "The " \o w.name[self] \o " is already closed.", FALSE)
    ELSE Result([w EXCEPT !.properties[self].isOpen = FALSE],
                "The " \o w.name[self] \o " is now closed.", TRUE)

-----------------------------------------------------------------------------
(* Referents *)

Dish_getReferents(w, self) ==
    << (IF w.properties[self].isDirty THEN "dirty " ELSE "clean ") \o w.name[self],
       w.name[self] >>

\* FoodItem.getReferents of refrigerate-food.py
FoodItem_getReferents(w, self) ==
    IF w.properties[self].isSpoiled
    THEN << "spoiled " \o w.name[self], w.name[self] >>
    ELSE << w.name[self] >>

getReferents(w, self) ==
    CASE w.classOf[self] = "Dish"     -> Dish_getReferents(w, self)
      [] w.classOf[self] = "FoodItem" -> FoodItem_getReferents(w, self)
      [] w.classOf[self] = "Agent"    -> <<"yourself">>
      [] w.classOf[self] = "Bird"     -> <<w.properties[self].stage>>
      [] w.classOf[self] = "Water"
           -> <<"water in " \o w.name[w.parentContainer[self]]>>
      [] OTHER                        -> <<w.name[self]>>

-----------------------------------------------------------------------------
(* Container, continued *)

\* Container.placeObjectInContainer without its check of isOpen
Container_placeObjectInContainer_NoOpenCheck(w, self, obj) ==
    IF ~ getProperty(w, self, "isContainer", TRUE)
    THEN Result(w, "The " \o w.name[self]
                   \o " is not a container, so things can't be placed there.", FALSE)
    ELSE IF ~ getProperty(w, obj, "isMoveable", TRUE)
    THEN [Result(w, "The " \o w.name[obj] \o " is not moveable.", FALSE)
            EXCEPT !.raises = TRUE]
    ELSE Result(addObject(w, self, obj),
                "The " \o getReferents(w, obj)[1] \o " is placed in the "
                  \o w.name[self] \o ".", TRUE)

Container_placeObjectInContainer(w, self, obj) ==
    IF ~ getProperty(w, self, "isContainer", TRUE)
    THEN Result(w, "The " \o w.name[self]
                   \o " is not a container, so things can't be placed there.", FALSE)
    ELSE IF ~ getProperty(w, obj, "isMoveable", TRUE)
    \* this branch returns three values where the callers unpack two
    THEN [Result(w, "The " \o w.name[obj] \o " is not moveable.", FALSE)
            EXCEPT !.raises = TRUE]
    ELSE IF ~ getProperty(w, self, "isOpen", TRUE)
    THEN Result(w, "The " \o w.name[self]
                   \o " is closed, so things can't be placed there.", FALSE)
    ELSE Result(addObject(w, self, obj),
                "The " \o getReferents(w, obj)[1] \o " is placed in the "
                  \o w.name[self] \o ".", TRUE)

\* BalanceScale.placeObjectInContainer of balance-scale-weigh.py
BalanceScale_placeObjectInContainer(w, self, obj) ==
    Result(w, "You can't put " \o w.name[obj]
              \o " on a balance scale directly. Put it on one side of the scale.", FALSE)

\* Wall.placeObjectInContainer of hang-painting.py
Wall_placeObjectInContainer(w, self, obj) ==
    Result(w, "You can't place the " \o w.name[obj] \o " on the " \o w.name[self], FALSE)

placeObjectInContainer(w, self, obj) ==
    IF w.classOf[self] = "BalanceScale"
    THEN BalanceScale_placeObjectInContainer(w, self, obj)
    ELSE IF w.classOf[self] = "Wall"
    THEN Wall_placeObjectInContainer(w, self, obj)
    ELSE Container_placeObjectInContainer(w, self, obj)

\* Container.takeObjectFromContainer without its check of isMoveable
Container_takeObjectFromContainer_NoMoveableCheck(w, self, obj) ==
    IF ~ getProperty(w, self, "isContainer", TRUE)
    THEN Result(w, "The " \o w.name[self]
                   \o " is not a container, so things can't be removed from it.", FALSE)
    ELSE IF ~ getProperty(w, self, "isOpen", TRUE)
    THEN Result(w, "The " \o w.name[self]
                   \o " is closed, so things can't be removed from it.", FALSE)
    ELSE IF obj \notin Range(w.contains[self])
    THEN Result(w, "The " \o w.name[obj] \o " is not contained in the "
                   \o w.name[self] \o ".", FALSE)
    ELSE Result(removeSelfFromContainer(w, obj),
                "The " \o getReferents(w, obj)[1] \o " is removed from the "
                  \o w.name[self] \o ".", TRUE)

Container_takeObjectFromContainer(w, self, obj) ==
    IF ~ getProperty(w, self, "isContainer", TRUE)
    THEN Result(w, "The " \o w.name[self]
                   \o " is not a container, so things can't be removed from it.", FALSE)
    ELSE IF ~ getProperty(w, obj, "isMoveable", TRUE)
    THEN Result(w, "The " \o w.name[obj] \o " is not moveable.", FALSE)
    ELSE IF ~ getProperty(w, self, "isOpen", TRUE)
    THEN Result(w, "The " \o w.name[self]
                   \o " is closed, so things can't be removed from it.", FALSE)
    ELSE IF obj \notin Range(w.contains[self])
    THEN Result(w, "The " \o w.name[obj] \o " is not contained in the "
                   \o w.name[self] \o ".", FALSE)
    ELSE Result(removeSelfFromContainer(w, obj),
                "The " \o getReferents(w, obj)[1] \o " is removed from the "
                  \o w.name[self] \o ".", TRUE)

\* BalanceScale.takeObjectFromContainer of balance-scale-weigh.py
BalanceScale_takeObjectFromContainer(w, self, obj) ==
    Result(w, "You can't take " \o w.name[obj] \o ".", FALSE)

\* Wall.takeObjectFromContainer of hang-painting.py
Wall_takeObjectFromContainer(w, self, obj) ==
    Result(w, "You can't get the " \o w.name[obj] \o " off the wall.", FALSE)

takeObjectFromContainer(w, self, obj) ==
    IF w.classOf[self] = "BalanceScale"
    THEN BalanceScale_takeObjectFromContainer(w, self, obj)
    ELSE IF w.classOf[self] = "Wall"
    THEN Wall_takeObjectFromContainer(w, self, obj)
    ELSE Container_takeObjectFromContainer(w, self, obj)

-----------------------------------------------------------------------------
(* Device *)

DeviceProperties ==
    [isContainer |-> FALSE, isMoveable |-> TRUE, isDevice |-> TRUE,
     isActivatable |-> TRUE, isOn |-> FALSE]

Device_turnOn(w, self) ==
    IF getProperty(w, self, "isActivatable", FALSE)
    THEN Result(w, "It's not clear how the " \o getReferents(w, self)[1]
                   \o " could be turned on.", FALSE)
    ELSE IF w.properties[self].isOn
    THEN Result(w, "The " \o getReferents(w, self)[1] \o " is already on.", FALSE)
    ELSE Result([w EXCEPT !.properties[self].isOn = TRUE],
                "The " \o getReferents(w, self)[1] \o " is now turned on.", TRUE)

\* turnOff reporting the device turned off and leaving isOn as it was
turnOff_LeavesOn(w, self) ==
    IF getProperty(w, self, "isActivatable", FALSE)
    THEN Result(w, "It's not clear how the " \o getReferents(w, self)[1]
                   \o " could be turned off.", FALSE)
    ELSE IF ~ w.properties[self].isOn
    THEN Result(w, "The " \o getReferents(w, self)[1] \o " is already off.", FALSE)
    ELSE Result(w, "The " \o getReferents(w, self)[1] \o " is now turned off.", TRUE)

turnOff(w, self) ==
    IF getProperty(w, self, "isActivatable", FALSE)
    THEN Result(w, "It's not clear how the " \o getReferents(w, self)[1]
                   \o " could be turned off.", FALSE)
    ELSE IF ~ w.properties[self].isOn
    THEN Result(w, "The " \o getReferents(w, self)[1] \o " is already off.", FALSE)
    ELSE Result([w EXCEPT !.properties[self].isOn = FALSE],
                "The " \o getReferents(w, self)[1] \o " is now turned off.", TRUE)

Device_useWithObject(w, self, patientObject) ==
    Result(w, "You're not sure how to use the " \o getReferents(w, self)[1]
              \o " with the " \o w.name[patientObject] \o ".", FALSE)

-----------------------------------------------------------------------------
(* dishwasher.py: the objects of the game *)

DishWasherProperties ==
    [isContainer |-> TRUE, isMoveable |-> FALSE, isOpenable |-> TRUE,
     isOpen |-> FALSE, containerPrefix |-> "in", isDevice |-> TRUE,
     isActivatable |-> TRUE, isOn |-> FALSE, cycleStage |-> 0,
     finishedCycle |-> FALSE]

DishWasher_turnOn(w, self) ==
    IF w.properties[self].isOpen
    THEN Result(w, "The " \o w.name[self] \o " is opened, so it can't be turned on.", FALSE)
    ELSE Device_turnOn(w, self)

turnOn(w, self) ==
    IF w.classOf[self] = "DishWasher" THEN DishWasher_turnOn(w, self)
    ELSE Device_turnOn(w, self)

\* Python's None in a string-valued property
NoneStr == "None"

makeDirty(w, self, foodName) ==
    [w EXCEPT !.properties[self] =
        [p \in (DOMAIN @) \cup {"foodMessName"} |->
            CASE p = "isDirty"      -> TRUE
              [] p = "foodMessName" -> foodName
              [] OTHER              -> @[p]]]

makeClean(w, self) ==
    [w EXCEPT !.properties[self] =
        [p \in (DOMAIN @) \cup {"foodMessName"} |->
            CASE p = "isDirty"      -> FALSE
              [] p = "foodMessName" -> NoneStr
              [] OTHER              -> @[p]]]

\* Dish.__init__
DishProperties(dishType, isDirty, containerPrefix) ==
    [isContainer |-> TRUE, isMoveable |-> TRUE, isOpenable |-> FALSE,
     isOpen |-> TRUE, containerPrefix |-> containerPrefix,
     dishType |-> dishType, isDirty |-> isDirty]

NewDish(w, dishType, isDirty, foodName, containerPrefix) ==
    LET w1 == NewObject(w, "Dish", dishType,
                        DishProperties(dishType, isDirty, containerPrefix))
    IN  IF isDirty THEN makeDirty(w1, w.UUID, foodName) ELSE w1

SoapProperties == [isContainer |-> FALSE, isMoveable |-> TRUE]

FoodProperties == [isContainer |-> FALSE, isMoveable |-> TRUE, isFood |-> TRUE]

\* for obj in objs: if type(obj) == Dish: obj.makeClean()
RECURSIVE makeCleanAll(_, _)
makeCleanAll(w, objs) ==
    IF objs = <<>> THEN w
    ELSE makeCleanAll(IF w.classOf[Head(objs)] = "Dish"
                      THEN makeClean(w, Head(objs)) ELSE w, Tail(objs))

\* for obj in objs: if type(obj) == Soap: obj.removeSelfFromContainer()
RECURSIVE removeAllSoap(_, _)
removeAllSoap(w, objs) ==
    IF objs = <<>> THEN w
    ELSE removeAllSoap(IF w.classOf[Head(objs)] = "Soap"
                       THEN removeSelfFromContainer(w, Head(objs)) ELSE w, Tail(objs))

\* DishWasher.tick without the reset of an opened dishwasher
DishWasher_tick_NoReset(w, self) ==
    LET w2 == IF w.properties[self].cycleStage < 3
              THEN [w EXCEPT !.properties[self].cycleStage = @ + 1]
              ELSE w
        inside == getAllContainedObjectsRecursive(w2, self)
        containsSoap == \E i \in 1 .. Len(inside) : w2.classOf[inside[i]] = "Soap"
        w3 == IF containsSoap THEN makeCleanAll(w2, inside) ELSE w2
    IN  IF w.properties[self].isOn = TRUE
        THEN IF w2.properties[self].cycleStage = 2
             THEN removeAllSoap(w3, getAllContainedObjectsRecursive(w3, self))
             ELSE IF w2.properties[self].cycleStage = 3
             THEN turnOff([w2 EXCEPT !.properties[self].finishedCycle = TRUE,
                                     !.properties[self].cycleStage = 0], self).w
             ELSE w2
        ELSE w

\* DishWasher.tick resetting the cycle of an opened dishwasher and leaving it on
DishWasher_tick_OpenStaysOn(w, self) ==
    LET w1 == IF w.properties[self].isOpen = TRUE
              THEN [w EXCEPT !.properties[self].finishedCycle = FALSE,
                             !.properties[self].cycleStage = 0]
              ELSE w
        w2 == IF w1.properties[self].cycleStage < 3
              THEN [w1 EXCEPT !.properties[self].cycleStage = @ + 1]
              ELSE w1
        inside == getAllContainedObjectsRecursive(w2, self)
        containsSoap == \E i \in 1 .. Len(inside) : w2.classOf[inside[i]] = "Soap"
        w3 == IF containsSoap THEN makeCleanAll(w2, inside) ELSE w2
    IN  IF w1.properties[self].isOn = TRUE
        THEN IF w2.properties[self].cycleStage = 2
             THEN removeAllSoap(w3, getAllContainedObjectsRecursive(w3, self))
             ELSE IF w2.properties[self].cycleStage = 3
             THEN turnOff([w2 EXCEPT !.properties[self].finishedCycle = TRUE,
                                     !.properties[self].cycleStage = 0], self).w
             ELSE w2
        ELSE w1

\* DishWasher.tick washing the dishes whether or not there is soap
DishWasher_tick_NoSoapCheck(w, self) ==
    LET w1 == IF w.properties[self].isOpen = TRUE
              THEN [w EXCEPT !.properties[self].isOn = FALSE,
                             !.properties[self].finishedCycle = FALSE,
                             !.properties[self].cycleStage = 0]
              ELSE w
        w2 == IF w1.properties[self].cycleStage < 3
              THEN [w1 EXCEPT !.properties[self].cycleStage = @ + 1]
              ELSE w1
        w3 == makeCleanAll(w2, getAllContainedObjectsRecursive(w2, self))
    IN  IF w1.properties[self].isOn = TRUE
        THEN IF w2.properties[self].cycleStage = 2
             THEN removeAllSoap(w3, getAllContainedObjectsRecursive(w3, self))
             ELSE IF w2.properties[self].cycleStage = 3
             THEN turnOff([w2 EXCEPT !.properties[self].finishedCycle = TRUE,
                                     !.properties[self].cycleStage = 0], self).w
             ELSE w2
        ELSE w1

DishWasher_tick(w, self) ==
    LET w1 == IF w.properties[self].isOpen = TRUE
              THEN [w EXCEPT !.properties[self].isOn = FALSE,
                             !.properties[self].finishedCycle = FALSE,
                             !.properties[self].cycleStage = 0]
              ELSE w
        w2 == IF w1.properties[self].cycleStage < 3
              THEN [w1 EXCEPT !.properties[self].cycleStage = @ + 1]
              ELSE w1
        inside == getAllContainedObjectsRecursive(w2, self)
        containsSoap == \E i \in 1 .. Len(inside) : w2.classOf[inside[i]] = "Soap"
        w3 == IF containsSoap THEN makeCleanAll(w2, inside) ELSE w2
    IN  IF w1.properties[self].isOn = TRUE
        THEN IF w2.properties[self].cycleStage = 2
             THEN removeAllSoap(w3, getAllContainedObjectsRecursive(w3, self))
             ELSE IF w2.properties[self].cycleStage = 3
             THEN turnOff([w2 EXCEPT !.properties[self].finishedCycle = TRUE,
                                     !.properties[self].cycleStage = 0], self).w
             ELSE w2
        ELSE w1

tick(w, self) ==
    IF w.classOf[self] = "DishWasher" THEN DishWasher_tick(w, self) ELSE w

DishSoapBottle_useWithObject(w, self, patientObject) ==
    IF w.classOf[patientObject] \in {"Dish", "DishWasher"} /\ w.UUID >= MaxUUID
    THEN [Result(w, "", FALSE) EXCEPT !.bounded = TRUE]
    ELSE IF w.classOf[patientObject] = "Dish"
    THEN Result(addObject(NewObject(w, "Soap", "dish soap", SoapProperties),
                          patientObject, w.UUID),
                "You squirt some dish soap on the "
                  \o getReferents(w, patientObject)[1] \o ".", TRUE)
    ELSE IF w.classOf[patientObject] = "DishWasher"
    THEN Result(addObject(NewObject(w, "Soap", "dish soap", SoapProperties),
                          patientObject, w.UUID),
                "You squirt some dish soap into the dishwasher.", TRUE)
    ELSE Result(w, "You're not sure how to use the " \o w.name[self]
                   \o " with the " \o w.name[patientObject] \o ".", FALSE)

useWithObject(w, self, patientObject) ==
    IF w.classOf[self] = "DishSoapBottle"
    THEN DishSoapBottle_useWithObject(w, self, patientObject)
    ELSE Device_useWithObject(w, self, patientObject)

-----------------------------------------------------------------------------
(* dishwasher.py: TextGame *)

\* The draws of initializeWorld: the dirty dishes, the clean dishes and the foods
\* (random.shuffle and random.randint(3, 5), (1, 3), (1, 3), here for seed 21).
dirtyDishes == << [dishType |-> "pot",   foodName |-> "peanut butter"],
                  [dishType |-> "bowl",  foodName |-> "apple"],
                  [dishType |-> "glass", foodName |-> "orange"] >>
cleanDishes == << "bottle" >>
foods       == << "bell pepper" >>

containerPrefixes(dishType) ==
    IF dishType \in {"plate", "fork", "spoon", "knife"} THEN "on" ELSE "in"

RECURSIVE addDirtyDishes(_, _, _)
addDirtyDishes(w, world, i) ==
    IF i > Len(dirtyDishes) THEN w
    ELSE addDirtyDishes(
           addObject(NewDish(w, dirtyDishes[i].dishType, TRUE, dirtyDishes[i].foodName,
                             containerPrefixes(dirtyDishes[i].dishType)),
                     world, w.UUID),
           world, i + 1)

RECURSIVE addCleanDishes(_, _, _)
addCleanDishes(w, world, i) ==
    IF i > Len(cleanDishes) THEN w
    ELSE addCleanDishes(addObject(NewDish(w, cleanDishes[i], FALSE, "", "in"),
                                  world, w.UUID),
                        world, i + 1)

RECURSIVE addFoods(_, _, _)
addFoods(w, world, i) ==
    IF i > Len(foods) THEN w
    ELSE addFoods(addObject(NewObject(w, "Food", foods[i], FoodProperties),
                            world, w.UUID),
                  world, i + 1)

\* TextGame.__init__ creates the agent first, then initializeWorld the rest
initializeWorld ==
    LET agent      == 0
        world      == 1
        wAgent     == NewObject(EmptyWorld, "Agent", "agent", ContainerProperties)
        wWorld     == addObject(NewObject(wAgent, "World", "kitchen", ContainerProperties),
                                world, agent)
        wWasher    == addObject(NewObject(wWorld, "DishWasher", "dishwasher",
                                          DishWasherProperties), world, wWorld.UUID)
        wBottle    == addObject(NewObject(wWasher, "DishSoapBottle", "bottle of dish soap",
                                          DeviceProperties), world, wWasher.UUID)
    IN  addFoods(addCleanDishes(addDirtyDishes(wBottle, world, 1), world, 1), world, 1)

\* self.agent, self.rootObject
Agent == 0
RootObject == 1

-----------------------------------------------------------------------------
(* The action catalog *)

\* dict[key].append(value), creating the list when the key is new; the dict is
\* kept as the ordered list of its items
dictAppend(d, key, value) ==
    IF \E i \in 1 .. Len(d) : d[i].key = key
    THEN [i \in 1 .. Len(d) |->
            IF d[i].key = key THEN [d[i] EXCEPT !.vals = Append(@, value)] ELSE d[i]]
    ELSE Append(d, [key |-> key, vals |-> <<value>>])

RECURSIVE addReferents(_, _, _)
addReferents(d, refs, obj) ==
    IF refs = <<>> THEN d
    ELSE addReferents(dictAppend(d, Head(refs), obj), Tail(refs), obj)

RECURSIVE addObjectsByName(_, _, _)
addObjectsByName(w, d, objs) ==
    IF objs = <<>> THEN d
    ELSE addObjectsByName(w, addReferents(d, getReferents(w, Head(objs)), Head(objs)),
                          Tail(objs))

makeNameToObjectDict(w) ==
    addObjectsByName(w, <<>>, getAllContainedObjectsRecursive(w, RootObject))

\* A command string, by its words: the verb, the referent of its first object,
\* the preposition and the referent of its second object ("" where it has none)
Cmd(verb, r1, prep, r2) == [verb |-> verb, r1 |-> r1, prep |-> prep, r2 |-> r2]

\* The string itself
Str(c) ==
    c.verb \o (IF c.r1 = "" THEN "" ELSE " " \o c.r1)
           \o (IF c.prep = "" THEN "" ELSE " " \o c.prep)
           \o (IF c.r2 = "" THEN "" ELSE " " \o c.r2)

Args(verb, obj1, obj2) == [verb |-> verb, obj1 |-> obj1, obj2 |-> obj2]

containerPrefixOf(w, obj) ==
    IF w.properties[obj].isContainer THEN w.properties[obj].containerPrefix ELSE "in"

\* The calls addAction(actionStr, actionArgs) that generatePossibleActions
\* makes, in order
addedActions(w) ==
    LET allObjects == makeNameToObjectDict(w)
        \* for objReferent, objs in allObjects.items(): for obj in objs: F(...)
        ForEach1(d, F(_, _)) ==
            Concat([i \in 1 .. Len(d) |->
              Concat([a \in 1 .. Len(d[i].vals) |-> F(d[i].key, d[i].vals[a])])])
        \* the same loop nested in itself, the referents outside and the
        \* objects inside
        ForEach2(d, F(_, _, _, _)) ==
            Concat([i \in 1 .. Len(d) |->
              Concat([j \in 1 .. Len(d) |->
                Concat([a \in 1 .. Len(d[i].vals) |->
                  Concat([b \in 1 .. Len(d[j].vals) |->
                    F(d[i].key, d[j].key, d[i].vals[a], d[j].vals[b])])])])])
        Add(c, args) == << [key |-> c, args |-> args] >>
        Take(r, o)   == Add(Cmd("take", r, "", ""), Args("take", o, None))
                        \o Add(Cmd("take", r, "from",
                                   getReferents(w, w.parentContainer[o])[1]),
                               Args("take", o, None))
        OpenClose(r, o) == Add(Cmd("open", r, "", ""), Args("open", o, None))
                           \o Add(Cmd("close", r, "", ""), Args("close", o, None))
        Examine(r, o) == Add(Cmd("examine", r, "", ""), Args("examine", o, None))
        OnOff(r, o)  == Add(Cmd("turn on", r, "", ""), Args("turn on", o, None))
                        \o Add(Cmd("turn off", r, "", ""), Args("turn off", o, None))
        Eat(r1, r2, o1, o2) == Add(Cmd("eat", r1, "with", r2), Args("eat", o1, o2))
        Put(r1, r2, o1, o2) ==
            IF o1 # o2
            THEN Add(Cmd("put", r1, containerPrefixOf(w, o2), r2), Args("put", o1, o2))
            ELSE <<>>
        Use(r1, r2, o1, o2) ==
            IF o1 # o2
            THEN Add(Cmd("use", r1, "on", r2), Args("use", o1, o2))
            ELSE <<>>
    IN  Add(Cmd("look around", "", "", ""), Args("look around", None, None))
        \o Add(Cmd("look", "", "", ""), Args("look around", None, None))
        \o Add(Cmd("inventory", "", "", ""), Args("inventory", None, None))
        \o ForEach1(allObjects, Take)
        \o ForEach1(allObjects, OpenClose)
        \o ForEach1(allObjects, Examine)
        \o ForEach1(allObjects, OnOff)
        \o ForEach2(allObjects, Eat)
        \o ForEach2(allObjects, Put)
        \o ForEach2(allObjects, Use)

\* possibleActions = {} followed by the calls addAction(key, args) of the list
\* `actions`: under each key the tuples added with it, in the order of the calls
addActions(actions) ==
    LET keys == {actions[i].key : i \in 1 .. Len(actions)}
        Under(k) == LET Has(a) == a.key = k
                        added == SelectSeq(actions, Has)
                    IN  [i \in 1 .. Len(added) |-> added[i].args]
    IN  [k \in keys |-> Under(k)]

\* The whole catalog
allPossibleActions(w) == addActions(addedActions(w))

\* nameToObjectDict.get(referent, [])
objectsNamed(d, referent) ==
    IF \E i \in 1 .. Len(d) : d[i].key = referent
    THEN d[CHOOSE i \in 1 .. Len(d) : d[i].key = referent].vals
    ELSE <<>>

\* The list that generatePossibleActions leaves under one key: the tuples of
\* the calls of addAction with that key, in the order of the loops
actionsUnder(w, allObjects, c) ==
    LET objs1 == objectsNamed(allObjects, c.r1)
        objs2 == objectsNamed(allObjects, c.r2)
        One(Keep(_)) ==
            Concat([a \in 1 .. Len(objs1) |->
                      IF Keep(objs1[a]) THEN << Args(c.verb, objs1[a], None) >> ELSE <<>>])
        Two(Keep(_, _)) ==
            Concat([a \in 1 .. Len(objs1) |->
              Concat([b \in 1 .. Len(objs2) |->
                      IF Keep(objs1[a], objs2[b])
                      THEN << Args(c.verb, objs1[a], objs2[b]) >> ELSE <<>>])])
        Each(o) == TRUE
        From(o) == getReferents(w, w.parentContainer[o])[1] = c.r2
        Both(o1, o2) == TRUE
        Other(o1, o2) == o1 # o2
        Into(o1, o2) == o1 # o2 /\ containerPrefixOf(w, o2) = c.prep
    IN  CASE c \in {Cmd("look around", "", "", ""), Cmd("look", "", "", "")}
               -> << Args("look around", None, None) >>
          [] c = Cmd("inventory", "", "", "") -> << Args("inventory", None, None) >>
          [] c.verb \in {"take", "open", "close", "examine", "turn on", "turn off"}
             /\ c.r1 # "" /\ c.prep = "" /\ c.r2 = ""               -> One(Each)
          [] c.verb = "take" /\ c.r1 # "" /\ c.prep = "from"        -> One(From)
          [] c.verb = "eat" /\ c.r1 # "" /\ c.prep = "with"         -> Two(Both)
          [] c.verb = "put" /\ c.r1 # ""                            -> Two(Into)
          [] c.verb = "use" /\ c.r1 # "" /\ c.prep = "on"           -> Two(Other)
          [] OTHER -> <<>>

Dishwasher == "dishwasher (ID: 2)"
SoapBottle == "bottle of dish soap (ID: 3)"
Pot        == "pot (ID: 4)"
Bowl       == "bowl (ID: 5)"
Glass      == "glass (ID: 6)"
Kitchen    == "kitchen (ID: 1)"

Frobnicate == Cmd("frobnicate", "", "", "")

\* The command strings a step of this model is called with
Commands ==
    { Frobnicate,
      Cmd("open", Dishwasher, "", ""), Cmd("close", Dishwasher, "", ""),
      Cmd("turn on", Dishwasher, "", ""),
      Cmd("take", Pot, "", ""), Cmd("take", Bowl, "", ""), Cmd("take", Glass, "", ""),
      Cmd("take", Pot, "from", Kitchen),
      Cmd("put", Pot, "in", Dishwasher), Cmd("put", Bowl, "in", Dishwasher),
      Cmd("put", Glass, "in", Dishwasher),
      Cmd("put", Pot, "in", Bowl), Cmd("put", Bowl, "in", Pot),
      Cmd("use", SoapBottle, "on", Dishwasher) }

\* generatePossibleActions.  Of the catalog, which has some 480 keys, the model
\* keeps the entries under the keys in Commands: no other key is looked up.
generatePossibleActions(w) ==
    LET allObjects == makeNameToObjectDict(w)
        actions == [c \in Commands |-> actionsUnder(w, allObjects, c)]
    IN  [c \in {k \in Commands : actions[k] # <<>>} |-> actions[c]]

-----------------------------------------------------------------------------
(* The action handlers *)

\* obj.foodName of a Food: its name without the id
foodName(w, obj) == foods[obj - (4 + Len(dirtyDishes) + Len(cleanDishes)) + 1]

\* The room description, cut after its first sentence
World_makeDescriptionStr(w) == "You find yourself in a kitchen."

actionEat(w, obj, dish) ==
    IF w.parentContainer[obj] # Agent
    THEN Result(w, "You don't currently have the " \o getReferents(w, obj)[1]
                   \o " in your inventory.", FALSE)
    ELSE IF w.classOf[dish] # "Dish"
    THEN Result(w, w.name[dish] \o " is not a dish.", FALSE)
    ELSE IF w.properties[dish].isDirty
    THEN Result(w, "You can't eat with a dirty dish.", FALSE)
    ELSE IF getProperty(w, obj, "isFood", TRUE)
    THEN LET taken == takeObjectFromContainer(w, w.parentContainer[obj], obj)
         IN  IF taken.success = FALSE
             THEN Result(w, "You can't see that.", FALSE)
             ELSE Result(addObject(makeDirty(taken.w, dish, w.name[obj]),
                                   RootObject, dish),
                         "You eat the " \o foodName(w, obj) \o " using the "
                           \o w.properties[dish].dishType \o ".", TRUE)
    ELSE Result(w, "You can't eat that.", FALSE)

actionOpen(w, obj) ==
    IF getProperty(w, obj, "isContainer", TRUE)
    THEN openContainer(w, obj)
    ELSE Result(w, "You can't open that.", FALSE)

actionClose(w, obj) ==
    IF getProperty(w, obj, "isContainer", TRUE)
    THEN closeContainer(w, obj)
    ELSE Result(w, "You can't close that.", FALSE)

actionTake(w, obj) ==
    IF w.parentContainer[obj] = None
    THEN Result(w, "Something has gone wrong -- that object is dangling in the void.  You can't take that.", FALSE)
    ELSE IF w.classOf[obj] = "Agent"
    THEN Result(w, "You cannot take yourself.", FALSE)
    ELSE LET taken == takeObjectFromContainer(w, w.parentContainer[obj], obj)
         IN  IF taken.success = FALSE
             THEN taken
             ELSE Result(addObject(taken.w, Agent, obj),
                         taken.obs \o " You put the " \o getReferents(w, obj)[1]
                           \o " in your inventory.", TRUE)

\* actionPut without the reinsertion into the original container
actionPut_NoRollback(w, objToMove, newContainer) ==
    IF getProperty(w, newContainer, "isContainer", FALSE)
    THEN Result(w, "You can't put things in the "
                   \o getReferents(w, newContainer)[1] \o ".", FALSE)
    ELSE IF w.parentContainer[objToMove] # Agent
    THEN Result(w, "You don't currently have the "
                   \o getReferents(w, objToMove)[1] \o " in your inventory.", FALSE)
    ELSE LET originalContainer == w.parentContainer[objToMove]
             taken  == takeObjectFromContainer(w, originalContainer, objToMove)
             placed == placeObjectInContainer(taken.w, newContainer, objToMove)
         IN  IF taken.success = FALSE
             THEN taken
             ELSE IF placed.raises
             THEN placed
             ELSE IF placed.success = FALSE
             THEN Result(placed.w, placed.obs, FALSE)
             ELSE Result(placed.w, taken.obs \o "\n" \o placed.obs, TRUE)

actionPut(w, objToMove, newContainer) ==
    IF getProperty(w, newContainer, "isContainer", FALSE)
    THEN Result(w, "You can't put things in the "
                   \o getReferents(w, newContainer)[1] \o ".", FALSE)
    ELSE IF w.parentContainer[objToMove] # Agent
    THEN Result(w, "You don't currently have the "
                   \o getReferents(w, objToMove)[1] \o " in your inventory.", FALSE)
    ELSE LET originalContainer == w.parentContainer[objToMove]
             taken  == takeObjectFromContainer(w, originalContainer, objToMove)
             placed == placeObjectInContainer(taken.w, newContainer, objToMove)
         IN  IF taken.success = FALSE
             THEN taken
             ELSE IF placed.raises
             THEN placed
             ELSE IF placed.success = FALSE
             THEN Result(addObject(placed.w, originalContainer, objToMove),
                         placed.obs, FALSE)
             ELSE Result(placed.w, taken.obs \o "\n" \o placed.obs, TRUE)

actionInventory(w) ==
    IF Len(w.contains[Agent]) = 0
    THEN Result(w, "Your inventory is empty.", TRUE)
    ELSE Result(w, "You have the following items in your inventory:", TRUE)

actionTurnOn(w, obj) ==
    IF getProperty(w, obj, "isDevice", TRUE)
    THEN turnOn(w, obj)
    ELSE Result(w, "You can't turn on that.", FALSE)

actionTurnOff(w, obj) ==
    IF getProperty(w, obj, "isDevice", TRUE)
    THEN turnOff(w, obj)
    ELSE Result(w, "You can't turn off that.", FALSE)

actionUse(w, deviceObj, patientObject) ==
    IF getProperty(w, deviceObj, "isDevice", TRUE)
    THEN useWithObject(w, deviceObj, patientObject)
    ELSE Result(w, "You can't use that.", FALSE)

-----------------------------------------------------------------------------
(* The turn engine *)

NotUnderstood == "I don't understand that."

\* step_action: the handler of the first tuple registered under the string
step_action(w, possible, actionStr) ==
    IF actionStr \notin DOMAIN possible
    THEN Result(w, NotUnderstood, FALSE)
    ELSE LET action == possible[actionStr][1]
             verb   == action.verb
         IN  CASE verb = "look around" -> Result(w, World_makeDescriptionStr(w), TRUE)
               [] verb = "inventory"   -> actionInventory(w)
               [] verb = "examine"     -> Result(w, w.name[action.obj1], TRUE)
               [] verb = "eat"         -> actionEat(w, action.obj1, action.obj2)
               [] verb = "open"        -> actionOpen(w, action.obj1)
               [] verb = "close"       -> actionClose(w, action.obj1)
               [] verb = "take"        -> actionTake(w, action.obj1)
               [] verb = "turn on"     -> actionTurnOn(w, action.obj1)
               [] verb = "turn off"    -> actionTurnOff(w, action.obj1)
               [] verb = "put"         -> actionPut(w, action.obj1, action.obj2)
               [] verb = "use"         -> actionUse(w, action.obj1, action.obj2)
               [] OTHER                -> Result(w, "ERROR: Unknown action.", FALSE)

RECURSIVE tickAll(_, _)
tickAll(w, objs) ==
    IF objs = <<>> THEN w ELSE tickAll(tick(w, Head(objs)), Tail(objs))

\* step_tick
doWorldTick(w) == tickAll(w, getAllContainedObjectsRecursive(w, RootObject))

numDirtyDishes(w) ==
    LET allObjects == getAllContainedObjectsRecursive(w, RootObject)
    IN  Cardinality({i \in 1 .. Len(allObjects) :
                        /\ w.classOf[allObjects[i]] = "Dish"
                        /\ getProperty(w, allObjects[i], "isDirty", TRUE)})

\* calculateScore turning gameOver over at each call while a dirty dish is left
calculateScore_FlipsGameOver(w, ses, over, won) ==
    LET n == numDirtyDishes(w)
    IN  [score    |-> ses.numStartingDirtyDishes - n,
         gameOver |-> IF n = 0 THEN TRUE ELSE ~ over,
         gameWon  |-> IF n = 0 THEN TRUE ELSE won]

\* calculateScore: the new (score, gameOver, gameWon)
calculateScore(w, ses, over, won) ==
    LET n == numDirtyDishes(w)
    IN  [score    |-> ses.numStartingDirtyDishes - n,
         gameOver |-> IF n = 0 THEN TRUE ELSE over,
         gameWon  |-> IF n = 0 THEN TRUE ELSE won]

\* step returning the score itself as the reward
step_RewardIsScore(w, possible, ses, sc, over, won, actionStr) ==
    LET acted  == step_action(w, possible, actionStr)
        ticked == doWorldTick(acted.w)
        scored == calculateScore(ticked, ses, over, won)
    IN  [w |-> ticked, obs |-> acted.obs, score |-> scored.score,
         reward |-> scored.score, gameOver |-> scored.gameOver,
         gameWon |-> scored.gameWon, raises |-> acted.raises,
         bounded |-> acted.bounded]

\* step with the world ticked a second time
step_TickTwice(w, possible, ses, sc, over, won, actionStr) ==
    LET acted  == step_action(w, possible, actionStr)
        ticked == doWorldTick(doWorldTick(acted.w))
        scored == calculateScore(ticked, ses, over, won)
    IN  [w |-> ticked, obs |-> acted.obs, score |-> scored.score,
         reward |-> scored.score - sc, gameOver |-> scored.gameOver,
         gameWon |-> scored.gameWon, raises |-> acted.raises,
         bounded |-> acted.bounded]

\* step: the action, one tick of the world, the score
step(w, possible, ses, sc, over, won, actionStr) ==
    LET acted  == step_action(w, possible, actionStr)
        ticked == doWorldTick(acted.w)
        scored == calculateScore(ticked, ses, over, won)
    IN  [w |-> ticked, obs |-> acted.obs, score |-> scored.score,
         reward |-> scored.score - sc, gameOver |-> scored.gameOver,
         gameWon |-> scored.gameWon, raises |-> acted.raises,
         bounded |-> acted.bounded]

-----------------------------------------------------------------------------
(* The session *)

SetWorld(w) ==
    /\ UUID' = w.UUID
    /\ classOf' = w.classOf
    /\ name' = w.name
    /\ parentContainer' = w.parentContainer
    /\ contains' = w.contains
    /\ properties' = w.properties

\* TextGame.__init__
Init ==
    LET w   == initializeWorld
        ses == [numStartingDirtyDishes |-> Len(dirtyDishes)]
        sc  == calculateScore(w, ses, FALSE, FALSE)
    IN  /\ UUID = w.UUID
        /\ classOf = w.classOf
        /\ name = w.name
        /\ parentContainer = w.parentContainer
        /\ contains = w.contains
        /\ properties = w.properties
        /\ session = ses
        /\ score = sc.score
        /\ gameOver = sc.gameOver
        /\ gameWon = sc.gameWon
        /\ observationStr = World_makeDescriptionStr(w)
        /\ possibleActions = generatePossibleActions(w)
        /\ reward = 0

\* game.step(actionStr)
Step(actionStr) ==
    \E r \in {step(World, possibleActions, session, score, gameOver, gameWon, actionStr)} :
        /\ ~ r.bounded
        /\ ~ r.raises
        /\ SetWorld(r.w)
        /\ observationStr' = r.obs
        /\ score' = r.score
        /\ gameOver' = r.gameOver
        /\ gameWon' = r.gameWon
        /\ reward' = r.reward
        /\ UNCHANGED <<possibleActions, session>>

\* One turn of the main loop: game.step(actionStr), then
\* game.generatePossibleActions()
Turn(actionStr) ==
    \E r \in {step(World, possibleActions, session, score, gameOver, gameWon, actionStr)} :
        /\ ~ r.bounded
        /\ ~ r.raises
        /\ SetWorld(r.w)
        /\ observationStr' = r.obs
        /\ score' = r.score
        /\ gameOver' = r.gameOver
        /\ gameWon' = r.gameWon
        /\ reward' = r.reward
        /\ possibleActions' = generatePossibleActions(r.w)
        /\ UNCHANGED session

\* game.generatePossibleActions(), which the callers of step call between steps
GeneratePossibleActions ==
    /\ possibleActions' = generatePossibleActions(World)
    /\ UNCHANGED <<UUID, classOf, name, parentContainer, contains, properties, score,
                   gameOver, gameWon, observationStr, reward, session>>

Next == \E actionStr \in Commands : Turn(actionStr)

Spec == Init /\ [][Next]_vars

\* The session driven through its methods in any order
NextApi ==
    \/ \E actionStr \in Commands : Step(actionStr)
    \/ GeneratePossibleActions

SpecApi == Init /\ [][NextApi]_vars

-----------------------------------------------------------------------------
(* refrigerate-food.py: the objects of the game.  GameObject and Container   *)
(* are those of dishwasher.py, with a temperature on every object and a tick *)
(* on every container.                                                       *)

Refrigerate_ContainerProperties ==
    [isContainer |-> TRUE, isMoveable |-> TRUE, temperature |-> 20,
     isOpenable |-> FALSE, isOpen |-> TRUE, containerPrefix |-> "in"]

FridgeProperties ==
    [isContainer |-> TRUE, isMoveable |-> FALSE, temperature |-> 20,
     isOpenable |-> TRUE, isOpen |-> FALSE, containerPrefix |-> "in",
     isDevice |-> TRUE, isActivatable |-> FALSE, isOn |-> TRUE,
     minTemperature |-> 4, tempDecreasePerTick |-> 5]

FoodItemProperties(foodPrefix) ==
    [isContainer |-> FALSE, isMoveable |-> TRUE, temperature |-> 20,
     foodPrefix |-> foodPrefix, isFood |-> TRUE, spoilTime |-> 20,
     maxTemperature |-> 4, timeAboveMaxTemp |-> 0, isSpoiled |-> FALSE,
     isAboveMaxTemp |-> TRUE]

CounterProperties ==
    [isContainer |-> TRUE, isMoveable |-> FALSE, temperature |-> 20,
     isOpenable |-> FALSE, isOpen |-> TRUE, containerPrefix |-> "on"]

\* Container.tick: the objects inside move towards the temperature of the
\* container, by at most maxTempChangePerTick = 5.0 a tick
RECURSIVE Container_tickObjects(_, _, _)
Container_tickObjects(w, self, objs) ==
    IF objs = <<>> THEN w
    ELSE LET obj  == Head(objs)
             temp == w.properties[obj].temperature
             own  == w.properties[self].temperature
             newTemperature ==
                 IF temp > own THEN (IF temp - 5 < own THEN own ELSE temp - 5)
                 ELSE IF temp < own THEN (IF temp + 5 > own THEN own ELSE temp + 5)
                 ELSE temp
         IN  Container_tickObjects(
               [w EXCEPT !.properties[obj].temperature = newTemperature],
               self, Tail(objs))

Container_tick(w, self) ==
    Container_tickObjects(w, self, getAllContainedObjectsRecursive(w, self))

RECURSIVE Fridge_tickObjects(_, _, _)
Fridge_tickObjects(w, self, objs) ==
    IF objs = <<>> THEN w
    ELSE LET obj == Head(objs)
             newTemperature ==
                 w.properties[obj].temperature - w.properties[self].tempDecreasePerTick
         IN  Fridge_tickObjects(
               [w EXCEPT !.properties[obj].temperature =
                   IF newTemperature < w.properties[self].minTemperature
                   THEN w.properties[self].minTemperature ELSE newTemperature],
               self, Tail(objs))

\* Fridge.tick: cools what is inside while the fridge is on and closed
Fridge_tick(w, self) ==
    IF w.properties[self].isOn = TRUE /\ w.properties[self].isOpen = FALSE
    THEN Fridge_tickObjects(w, self, getAllContainedObjectsRecursive(w, self))
    ELSE w

FoodItem_tick(w, self) ==
    LET p     == w.properties[self]
        above == p.temperature > p.maxTemperature
        time  == IF above THEN p.timeAboveMaxTemp + 1 ELSE p.timeAboveMaxTemp
    IN  [w EXCEPT !.properties[self].isAboveMaxTemp = above,
                  !.properties[self].timeAboveMaxTemp = time,
                  !.properties[self].isSpoiled =
                      IF time > p.spoilTime THEN TRUE ELSE p.isSpoiled]

\* obj.tick() by the class of obj
Refrigerate_tick(w, self) ==
    CASE w.classOf[self] = "Fridge"   -> Fridge_tick(w, self)
      [] w.classOf[self] = "FoodItem" -> FoodItem_tick(w, self)
      [] w.classOf[self] \in {"World", "Agent", "Counter"} -> Container_tick(w, self)
      [] OTHER -> w

-----------------------------------------------------------------------------
(* refrigerate-food.py: TextGame *)

possibleFoods ==
    << [foodPrefix |-> "some", foodName |-> "apple sauce"],
       [foodPrefix |-> "some", foodName |-> "yogurt"],
       [foodPrefix |-> "a bottle of", foodName |-> "orange juice"],
       [foodPrefix |-> "a bottle of", foodName |-> "pineapple juice"],
       [foodPrefix |-> "a bottle of", foodName |-> "soy milk"],
       [foodPrefix |-> "a jar of", foodName |-> "jam"] >>

\* The draws of initializeWorld: the first numFoods = random.randint(1, 3) of
\* the shuffled foods, by their place in possibleFoods (here for seed 6)
foodsOnCounter == << 3 >>

RECURSIVE createFoods(_, _)
createFoods(w, i) ==
    IF i > Len(possibleFoods) THEN w
    ELSE createFoods(NewObject(w, "FoodItem", possibleFoods[i].foodName,
                               FoodItemProperties(possibleFoods[i].foodPrefix)),
                     i + 1)

RECURSIVE addFoodsToCounter(_, _, _, _)
addFoodsToCounter(w, counter, firstFood, i) ==
    IF i > Len(foodsOnCounter) THEN w
    ELSE addFoodsToCounter(addObject(w, counter, firstFood + foodsOnCounter[i] - 1),
                           counter, firstFood, i + 1)

Refrigerate_initializeWorld ==
    LET agent    == 0
        world    == 1
        wAgent   == NewObject(EmptyWorld, "Agent", "agent", Refrigerate_ContainerProperties)
        wWorld   == addObject(NewObject(wAgent, "World", "kitchen",
                                        Refrigerate_ContainerProperties), world, agent)
        fridge   == wWorld.UUID
        wFridge  == addObject(NewObject(wWorld, "Fridge", "fridge", FridgeProperties),
                              world, fridge)
        counter  == wFridge.UUID
        wCounter == addObject(NewObject(wFridge, "Counter", "counter", CounterProperties),
                              world, counter)
    IN  addFoodsToCounter(createFoods(wCounter, 1), counter, wCounter.UUID, 1)

\* The list that generatePossibleActions of refrigerate-food.py leaves under
\* one key
Refrigerate_actionsUnder(w, allObjects, c) ==
    LET objs1 == objectsNamed(allObjects, c.r1)
        objs2 == objectsNamed(allObjects, c.r2)
        One(Keep(_)) ==
            Concat([a \in 1 .. Len(objs1) |->
                      IF Keep(objs1[a]) THEN << Args(c.verb, objs1[a], None) >> ELSE <<>>])
        Two(Keep(_, _)) ==
            Concat([a \in 1 .. Len(objs1) |->
              Concat([b \in 1 .. Len(objs2) |->
                      IF Keep(objs1[a], objs2[b])
                      THEN << Args(c.verb, objs1[a], objs2[b]) >> ELSE <<>>])])
        Each(o) == TRUE
        From(o) == getReferents(w, w.parentContainer[o])[1] = c.r2
        Other(o1, o2) == o1 # o2
        Into(o1, o2) == o1 # o2 /\ containerPrefixOf(w, o2) = c.prep
    IN  CASE c \in {Cmd("look around", "", "", ""), Cmd("look", "", "", "")}
               -> << Args("look around", None, None) >>
          [] c = Cmd("inventory", "", "", "") -> << Args("inventory", None, None) >>
          [] c.verb \in {"eat", "take", "open", "close", "examine", "turn on", "turn off"}
             /\ c.r1 # "" /\ c.prep = "" /\ c.r2 = ""               -> One(Each)
          [] c.verb = "take" /\ c.r1 # "" /\ c.prep = "from"        -> One(From)
          [] c.verb = "put" /\ c.r1 # ""                            -> Two(Into)
          [] c.verb = "use" /\ c.r1 # "" /\ c.prep = "on"           -> Two(Other)
          [] OTHER -> <<>>

Fridge      == "fridge (ID: 2)"
Counter     == "counter (ID: 3)"
OrangeJuice == "orange juice (ID: 6)"

\* The command strings a step of the refrigerate-food session is called with
Refrigerate_Commands ==
    { Frobnicate, Cmd("look", "", "", ""),
      Cmd("open", Fridge, "", ""), Cmd("close", Fridge, "", ""),
      Cmd("take", OrangeJuice, "", ""), Cmd("eat", OrangeJuice, "", ""),
      Cmd("put", OrangeJuice, "in", Fridge), Cmd("put", OrangeJuice, "on", Counter) }

Refrigerate_generatePossibleActions(w) ==
    LET allObjects == makeNameToObjectDict(w)
        actions == [c \in Refrigerate_Commands |-> Refrigerate_actionsUnder(w, allObjects, c)]
    IN  [c \in {k \in Refrigerate_Commands : actions[k] # <<>>} |-> actions[c]]

Refrigerate_actionEat(w, obj) ==
    IF w.parentContainer[obj] # Agent
    THEN Result(w, "You don't currently have the " \o getReferents(w, obj)[1]
                   \o " in your inventory.", FALSE)
    ELSE IF getProperty(w, obj, "isFood", TRUE)
    THEN LET taken == takeObjectFromContainer(w, w.parentContainer[obj], obj)
         IN  IF taken.success = FALSE
             THEN Result(w, "You can't see that.", FALSE)
             ELSE Result(taken.w, "You eat the " \o w.name[obj] \o ".", TRUE)
    ELSE Result(w, "You can't eat that.", FALSE)

Refrigerate_step_action(w, possible, actionStr) ==
    IF actionStr \notin DOMAIN possible
    THEN Result(w, NotUnderstood, FALSE)
    ELSE LET action == possible[actionStr][1]
             verb   == action.verb
         IN  CASE verb = "look around" -> Result(w, World_makeDescriptionStr(w), TRUE)
               [] verb = "inventory"   -> actionInventory(w)
               [] verb = "examine"     -> Result(w, w.name[action.obj1], TRUE)
               [] verb = "eat"         -> Refrigerate_actionEat(w, action.obj1)
               [] verb = "open"        -> actionOpen(w, action.obj1)
               [] verb = "close"       -> actionClose(w, action.obj1)
               [] verb = "take"        -> actionTake(w, action.obj1)
               [] verb = "turn on"     -> actionTurnOn(w, action.obj1)
               [] verb = "turn off"    -> actionTurnOff(w, action.obj1)
               [] verb = "put"         -> actionPut(w, action.obj1, action.obj2)
               [] verb = "use"         -> actionUse(w, action.obj1, action.obj2)
               [] OTHER                -> Result(w, "ERROR: Unknown action.", FALSE)

RECURSIVE Refrigerate_tickAll(_, _)
Refrigerate_tickAll(w, objs) ==
    IF objs = <<>> THEN w
    ELSE Refrigerate_tickAll(Refrigerate_tick(w, Head(objs)), Tail(objs))

\* doWorldTick with the objects ticked in the reverse of their order
Refrigerate_doWorldTick_Reversed(w) ==
    LET allObjects == getAllContainedObjectsRecursive(w, RootObject)
    IN  Refrigerate_tickAll(w, [i \in 1 .. Len(allObjects) |->
                                  allObjects[Len(allObjects) + 1 - i]])

Refrigerate_doWorldTick(w) ==
    Refrigerate_tickAll(w, getAllContainedObjectsRecursive(w, RootObject))

\* calculateScore of refrigerate-food.py: the new (score, gameOver, gameWon)
Refrigerate_calculateScore(w, ses) ==
    LET allObjects == getAllContainedObjectsRecursive(w, RootObject)
        foodItems  == {i \in 1 .. Len(allObjects) : w.classOf[allObjects[i]] = "FoodItem"}
        spoiled    == {i \in foodItems : getProperty(w, allObjects[i], "isSpoiled", TRUE)}
        cooled     == {i \in foodItems \ spoiled :
                         getProperty(w, allObjects[i], "isAboveMaxTemp", FALSE)}
        numFoodsChanged == Cardinality(spoiled) + Cardinality(cooled)
        numFoodsMissing == ses.numFoodsToPutInFridge - Cardinality(foodItems)
        newScore   == Cardinality(cooled) - Cardinality(spoiled) - numFoodsMissing
    IN  IF newScore = ses.numFoodsToPutInFridge
        THEN [score |-> newScore, gameOver |-> TRUE, gameWon |-> TRUE]
        ELSE IF numFoodsChanged + numFoodsMissing >= ses.numFoodsToPutInFridge
        THEN [score |-> newScore, gameOver |-> TRUE, gameWon |-> FALSE]
        ELSE [score |-> newScore, gameOver |-> FALSE, gameWon |-> FALSE]

Refrigerate_step(w, possible, ses, sc, actionStr) ==
    LET acted  == Refrigerate_step_action(w, possible, actionStr)
        ticked == Refrigerate_doWorldTick(acted.w)
        scored == Refrigerate_calculateScore(ticked, ses)
    IN  [w |-> ticked, obs |-> acted.obs, score |-> scored.score,
         reward |-> scored.score - sc, gameOver |-> scored.gameOver,
         gameWon |-> scored.gameWon, raises |-> acted.raises]

\* The longest time a food is followed above its maximum temperature
MaxTimeAboveMaxTemp == 22

\* main: TextGame(randomSeed), then generatePossibleActions()
Refrigerate_Init ==
    LET w   == Refrigerate_initializeWorld
        ses == [numFoodsToPutInFridge |-> Len(foodsOnCounter)]
        sc  == Refrigerate_calculateScore(w, ses)
    IN  /\ UUID = w.UUID
        /\ classOf = w.classOf
        /\ name = w.name
        /\ parentContainer = w.parentContainer
        /\ contains = w.contains
        /\ properties = w.properties
        /\ session = ses
        /\ score = sc.score
        /\ gameOver = sc.gameOver
        /\ gameWon = sc.gameWon
        /\ observationStr = World_makeDescriptionStr(w)
        /\ possibleActions = Refrigerate_generatePossibleActions(w)
        /\ reward = 0

\* One turn of the main loop of refrigerate-food.py
Refrigerate_Turn(actionStr) ==
    /\ \A o \in Ids : classOf[o] = "FoodItem"
                        => properties[o].timeAboveMaxTemp < MaxTimeAboveMaxTemp
    /\ \E r \in {Refrigerate_step(World, possibleActions, session, score, actionStr)} :
        /\ ~ r.raises
        /\ SetWorld(r.w)
        /\ observationStr' = r.obs
        /\ score' = r.score
        /\ gameOver' = r.gameOver
        /\ gameWon' = r.gameWon
        /\ reward' = r.reward
        /\ possibleActions' = Refrigerate_generatePossibleActions(r.w)
        /\ UNCHANGED session

Refrigerate_Next == \E actionStr \in Refrigerate_Commands : Refrigerate_Turn(actionStr)

SpecRefrigerate == Refrigerate_Init /\ [][Refrigerate_Next]_vars

\* C3: in every game gameOver is a latch: once a step has returned it true,
\* every later step returns it true.
C3_GameOverLatch == [][gameOver => gameOver']_vars

-----------------------------------------------------------------------------
(* balance-scale-weigh.py *)

WeightProperties(mass) == [isContainer |-> FALSE, isMoveable |-> TRUE, weight |-> mass]

\* BalanceScale.__init__: the scale, then its two sides, whose parent is set to
\* the scale without their being added to its children
NewBalanceScale(w, scaleName) ==
    LET self   == w.UUID
        wScale == NewObject(w, "BalanceScale", scaleName,
                            [ContainerProperties EXCEPT !.isMoveable = FALSE])
        wLeft  == NewObject(wScale, "Container", "left side of the " \o scaleName,
                            [ContainerProperties EXCEPT !.isMoveable = FALSE])
        wRight == NewObject(wLeft, "Container", "right side of the " \o scaleName,
                            [ContainerProperties EXCEPT !.isMoveable = FALSE])
    IN  [wRight EXCEPT !.parentContainer[BalanceScale_left(self)] = self,
                       !.parentContainer[BalanceScale_right(self)] = self]

all_mass == << 1, 1, 2, 5, 10 >>

\* The draw of initializeWorld: random.choice(range(1, max_mass + 1)), here
\* for seed 0
cube_weight == 13

max_mass == 19

RECURSIVE addWeights(_, _, _)
addWeights(w, world, n) ==
    IF n > Len(all_mass) THEN w
    ELSE addWeights(addObject(NewObject(w, "Weight", "weight " \o ToString(n - 1),
                                        WeightProperties(all_mass[n])),
                              world, w.UUID),
                    world, n + 1)

\* initializeWorld of balance-scale-weigh.py where the draw of the cube's weight
\* gives mass
Balance_initializeWorldWith(mass) ==
    LET agent    == 0
        world    == 1
        wAgent   == NewObject(EmptyWorld, "Agent", "agent", ContainerProperties)
        wWorld   == addObject(NewObject(wAgent, "World", "room", ContainerProperties),
                              world, agent)
        wScale   == addObject(NewBalanceScale(wWorld, "balance scale"), world, wWorld.UUID)
        wWeights == addWeights(wScale, world, 1)
        wCube    == addObject(NewObject(wWeights, "Cube", "cube", WeightProperties(mass)),
                              world, wWeights.UUID)
    IN  addObject(NewObject(wCube, "Container", "box", ContainerProperties),
                  world, wCube.UUID)

Balance_initializeWorld == Balance_initializeWorldWith(cube_weight)

\* The list that generatePossibleActions of balance-scale-weigh.py leaves under
\* one key
Balance_actionsUnder(w, allObjects, c) ==
    LET objs1 == objectsNamed(allObjects, c.r1)
        objs2 == objectsNamed(allObjects, c.r2)
        One(Keep(_)) ==
            Concat([a \in 1 .. Len(objs1) |->
                      IF Keep(objs1[a]) THEN << Args(c.verb, objs1[a], None) >> ELSE <<>>])
        Two(Keep(_, _)) ==
            Concat([a \in 1 .. Len(objs1) |->
              Concat([b \in 1 .. Len(objs2) |->
                      IF Keep(objs1[a], objs2[b])
                      THEN << Args(c.verb, objs1[a], objs2[b]) >> ELSE <<>>])])
        Each(o) == TRUE
        From(o) == getReferents(w, w.parentContainer[o])[1] = c.r2
        Into(o1, o2) == o1 # o2 /\ containerPrefixOf(w, o2) = c.prep
        masses == {i \in 1 .. max_mass : ToString(i) \o "g" = c.r1}
    IN  CASE c \in {Cmd("look around", "", "", ""), Cmd("look", "", "", "")}
               -> << Args("look around", None, None) >>
          [] c = Cmd("inventory", "", "", "") -> << Args("inventory", None, None) >>
          [] c.verb = "take" /\ c.r1 # "" /\ c.prep = "" /\ c.r2 = "" -> One(Each)
          [] c.verb = "take" /\ c.r1 # "" /\ c.prep = "from"          -> One(From)
          [] c.verb = "answer" /\ masses # {} /\ c.prep = "" /\ c.r2 = ""
               -> << Args("answer", CHOOSE i \in masses : TRUE, None) >>
          [] c.verb = "put" /\ c.r1 # ""                              -> Two(Into)
          [] OTHER -> <<>>

Scale     == "balance scale (ID: 2)"
LeftSide  == "left side of the balance scale (ID: 3)"
RightSide == "right side of the balance scale (ID: 4)"
Weight3   == "weight 3 (ID: 8)"
Cube      == "cube (ID: 10)"
Box       == "box (ID: 11)"

\* The command strings a step of the balance-scale session is called with
Balance_Commands ==
    { Frobnicate, Cmd("look", "", "", ""),
      Cmd("take", Cube, "", ""), Cmd("take", Weight3, "", ""), Cmd("take", LeftSide, "", ""),
      Cmd("put", Cube, "in", LeftSide), Cmd("put", Cube, "in", Box),
      Cmd("put", Weight3, "in", RightSide), Cmd("put", Weight3, "in", Scale),
      Cmd("answer", "5g", "", ""), Cmd("answer", "13g", "", "") }

Balance_generatePossibleActions(w) ==
    LET allObjects == makeNameToObjectDict(w)
        actions == [c \in Balance_Commands |-> Balance_actionsUnder(w, allObjects, c)]
    IN  [c \in {k \in Balance_Commands : actions[k] # <<>>} |-> actions[c]]

\* The state_string of a scale that is in balance whenever the left side is
\* not the lighter one
state_string_NotLower(left_weight, right_weight) ==
    IF left_weight < right_weight
    THEN "The left side of the scale is higher than the right side."
    ELSE "The scale is in balance."

\* The state_string of BalanceScale.makeDescriptionStr
state_string(left_weight, right_weight) ==
    IF left_weight > right_weight
    THEN "The left side of the scale is lower than the right side."
    ELSE IF left_weight < right_weight
    THEN "The left side of the scale is higher than the right side."
    ELSE "The scale is in balance."

\* BalanceScale.get_mass: the sum of the weights of the children of the side;
\* an object without the property weight, the box, makes the sum raise TypeError
RECURSIVE get_mass(_, _)
get_mass(w, objs) ==
    IF objs = <<>> THEN [mass |-> 0, raises |-> FALSE]
    ELSE LET rest == get_mass(w, Tail(objs))
         IN  IF hasProperty(w, Head(objs), "weight")
             THEN [rest EXCEPT !.mass = @ + w.properties[Head(objs)].weight]
             ELSE [rest EXCEPT !.raises = TRUE]

\* makeDescriptionStr of Agent, Weight, Cube and Container
Balance_objectDescriptionStr(w, obj) ==
    CASE w.classOf[obj] = "Agent"  -> "yourself"
      [] w.classOf[obj] = "Weight" -> ToString(w.properties[obj].weight) \o "g " \o w.name[obj]
      [] w.classOf[obj] = "Cube"   -> "a " \o w.name[obj]
      [] OTHER                     -> "the " \o w.name[obj]

\* makeOneSideDescription: the loop over effectiveContents from its i-th element
RECURSIVE sideContents(_, _, _)
sideContents(w, objs, i) ==
    IF i > Len(objs) THEN ""
    ELSE (IF i = Len(objs) /\ Len(objs) > 1 THEN "and " ELSE "")
         \o Balance_objectDescriptionStr(w, objs[i])
         \o (IF i < Len(objs) THEN ", " ELSE "")
         \o sideContents(w, objs, i + 1)

makeOneSideDescription(w, side) ==
    IF w.contains[side] # <<>>
    THEN "contains " \o sideContents(w, w.contains[side], 1)
    ELSE "is empty"

BalanceScale_makeDescriptionStr(w, self) ==
    LET left_weight  == get_mass(w, w.contains[BalanceScale_left(self)])
        right_weight == get_mass(w, w.contains[BalanceScale_right(self)])
    IN  [str |-> "a " \o w.name[self] \o " with two plates. "
                 \o state_string(left_weight.mass, right_weight.mass)
                 \o " The left plate " \o makeOneSideDescription(w, BalanceScale_left(self))
                 \o ". The right plate " \o makeOneSideDescription(w, BalanceScale_right(self))
                 \o ".",
         raises |-> left_weight.raises \/ right_weight.raises]

RECURSIVE Balance_describeAll(_, _)
Balance_describeAll(w, objs) ==
    IF objs = <<>> THEN [str |-> "", raises |-> FALSE]
    ELSE LET rest == Balance_describeAll(w, Tail(objs))
             this == IF w.classOf[Head(objs)] = "BalanceScale"
                     THEN BalanceScale_makeDescriptionStr(w, Head(objs))
                     ELSE [str |-> Balance_objectDescriptionStr(w, Head(objs)),
                           raises |-> FALSE]
         IN  [str |-> "\t" \o this.str \o "\n" \o rest.str,
              raises |-> this.raises \/ rest.raises]

\* World.makeDescriptionStr of balance-scale-weigh.py
Balance_makeDescriptionStr(w) ==
    "You find yourself in a room.  In the room, you see: \n"
      \o Balance_describeAll(w, w.contains[RootObject]).str

\* actionLook of balance-scale-weigh.py
Balance_actionLook(w) ==
    IF Balance_describeAll(w, w.contains[RootObject]).raises
    THEN [Result(w, "", FALSE) EXCEPT !.raises = TRUE]
    ELSE Result(w, Balance_makeDescriptionStr(w), TRUE)

\* step_action of balance-scale-weigh.py; actionAnswer writes answer_mass, a
\* field of the game
Balance_step_action(w, ses, possible, actionStr) ==
    IF actionStr \notin DOMAIN possible
    THEN [r |-> Result(w, NotUnderstood, FALSE), ses |-> ses]
    ELSE LET action == possible[actionStr][1]
             verb   == action.verb
         IN  CASE verb = "look around"
                    -> [r |-> Balance_actionLook(w), ses |-> ses]
               [] verb = "inventory" -> [r |-> actionInventory(w), ses |-> ses]
               [] verb = "take"      -> [r |-> actionTake(w, action.obj1), ses |-> ses]
               [] verb = "put"
                    -> [r |-> actionPut(w, action.obj1, action.obj2), ses |-> ses]
               [] verb = "answer"
                    -> [r |-> Result(w, "You believe the cube weighs "
                                        \o ToString(action.obj1) \o "g.", TRUE),
                        ses |-> [ses EXCEPT !.answer_mass = action.obj1]]
               [] OTHER -> [r |-> Result(w, "ERROR: Unknown action.", FALSE), ses |-> ses]

\* A calculateScore that counts every answer as the right one
Balance_calculateScore_AnyAnswer(ses, over, won) ==
    IF ses.answer_mass # None
    THEN [score |-> 1, gameOver |-> TRUE, gameWon |-> TRUE]
    ELSE [score |-> 0, gameOver |-> over, gameWon |-> won]

\* calculateScore of balance-scale-weigh.py
Balance_calculateScore(ses, over, won) ==
    IF ses.answer_mass # None
    THEN IF ses.cube_weight = ses.answer_mass
         THEN [score |-> 1, gameOver |-> TRUE, gameWon |-> TRUE]
         ELSE [score |-> 0, gameOver |-> TRUE, gameWon |-> FALSE]
    ELSE [score |-> 0, gameOver |-> over, gameWon |-> won]

\* step of balance-scale-weigh.py.  No class of this game overrides
\* GameObject.tick, which does nothing: doWorldTick leaves the objects as they are.
Balance_step(w, possible, ses, sc, over, won, actionStr) ==
    LET acted  == Balance_step_action(w, ses, possible, actionStr)
        scored == Balance_calculateScore(acted.ses, over, won)
    IN  [w |-> acted.r.w, obs |-> acted.r.obs, ses |-> acted.ses,
         score |-> scored.score, reward |-> scored.score - sc,
         gameOver |-> scored.gameOver, gameWon |-> scored.gameWon,
         raises |-> acted.r.raises]

\* main: TextGame(randomSeed), then generatePossibleActions()
Balance_Init ==
    LET w   == Balance_initializeWorld
        ses == [cube_weight |-> cube_weight, answer_mass |-> None]
        sc  == Balance_calculateScore(ses, FALSE, FALSE)
    IN  /\ UUID = w.UUID
        /\ classOf = w.classOf
        /\ name = w.name
        /\ parentContainer = w.parentContainer
        /\ contains = w.contains
        /\ properties = w.properties
        /\ session = ses
        /\ score = sc.score
        /\ gameOver = sc.gameOver
        /\ gameWon = sc.gameWon
        /\ observationStr = Balance_makeDescriptionStr(w)
        /\ possibleActions = Balance_generatePossibleActions(w)
        /\ reward = 0

\* One turn of the main loop of balance-scale-weigh.py
Balance_Turn(actionStr) ==
    \E r \in {Balance_step(World, possibleActions, session, score, gameOver, gameWon,
                           actionStr)} :
        /\ ~ r.raises
        /\ SetWorld(r.w)
        /\ session' = r.ses
        /\ observationStr' = r.obs
        /\ score' = r.score
        /\ gameOver' = r.gameOver
        /\ gameWon' = r.gameWon
        /\ reward' = r.reward
        /\ possibleActions' = Balance_generatePossibleActions(r.w)

Balance_Next == \E actionStr \in Balance_Commands : Balance_Turn(actionStr)

SpecBalance == Balance_Init /\ [][Balance_Next]_vars

-----------------------------------------------------------------------------
(* balance-scale-weigh.py: the session of TextGame(randomSeed = 15), whose
   cube weighs 7 g *)

Weight2 == "weight 2 (ID: 7)"

\* The command strings a step of this session is called with
Weigh_Commands ==
    { Cmd("look", "", "", ""),
      Cmd("take", Cube, "", ""), Cmd("put", Cube, "in", LeftSide),
      Cmd("take", Weight3, "", ""), Cmd("put", Weight3, "in", RightSide),
      Cmd("take", Weight2, "", ""), Cmd("put", Weight2, "in", RightSide),
      Cmd("put", Weight2, "in", LeftSide),
      Cmd("take", Box, "", ""), Cmd("put", Box, "in", LeftSide),
      Cmd("answer", "7g", "", ""), Cmd("answer", "5g", "", "") }

Weigh_generatePossibleActions(w) ==
    LET allObjects == makeNameToObjectDict(w)
        actions == [c \in Weigh_Commands |-> Balance_actionsUnder(w, allObjects, c)]
    IN  [c \in {k \in Weigh_Commands : actions[k] # <<>>} |-> actions[c]]

\* TextGame(randomSeed = 15), then generatePossibleActions()
Weigh_Init ==
    LET w   == Balance_initializeWorldWith(7)
        ses == [cube_weight |-> 7, answer_mass |-> None]
        sc  == Balance_calculateScore(ses, FALSE, FALSE)
    IN  /\ UUID = w.UUID
        /\ classOf = w.classOf
        /\ name = w.name
        /\ parentContainer = w.parentContainer
        /\ contains = w.contains
        /\ properties = w.properties
        /\ session = ses
        /\ score = sc.score
        /\ gameOver = sc.gameOver
        /\ gameWon = sc.gameWon
        /\ observationStr = Balance_makeDescriptionStr(w)
        /\ possibleActions = Weigh_generatePossibleActions(w)
        /\ reward = 0

\* One turn: step(actionStr), then generatePossibleActions()
Weigh_Turn(actionStr) ==
    \E r \in {Balance_step(World, possibleActions, session, score, gameOver, gameWon,
                           actionStr)} :
        /\ ~ r.raises
        /\ SetWorld(r.w)
        /\ session' = r.ses
        /\ observationStr' = r.obs
        /\ score' = r.score
        /\ gameOver' = r.gameOver
        /\ gameWon' = r.gameWon
        /\ reward' = r.reward
        /\ possibleActions' = Weigh_generatePossibleActions(r.w)

Weigh_Next == \E actionStr \in Weigh_Commands : Weigh_Turn(actionStr)

SpecWeigh == Weigh_Init /\ [][Weigh_Next]_vars

-----------------------------------------------------------------------------
(* bird-life-cycle.py: the mother bird, her nest and the egg.  The agent is a
   Bird too; the objects are agent 0, nest 1 and baby 2. *)

\* The number of ticks an egg is followed, and the number a young bird is
MaxHatch == 7
MaxGrow == 7

\* Bird.__init__
BirdProperties(stage) ==
    [isContainer |-> TRUE, isMoveable |-> TRUE, isOpenable |-> FALSE,
     isOpen |-> TRUE, containerPrefix |-> "in",
     stage |-> stage, warm |-> 3, food |-> 3, hatch |-> 0, grow |-> 0]

Bird_initializeWorld ==
    LET w0 == NewObject(EmptyWorld, "Agent", "agent", BirdProperties("adult bird"))
        w1 == NewObject(w0, "World", "nest", ContainerProperties)
        w2 == addObject(w1, RootObject, Agent)
        w3 == NewObject(w2, "Bird", "baby", BirdProperties("egg"))
    IN  addObject(w3, RootObject, 2)

\* Bird.makeDescriptionStr and Agent.makeDescriptionStr
Bird_objectDescriptionStr(w, self) ==
    LET p == w.properties[self]
    IN  IF w.classOf[self] = "Agent" THEN "yourself"
        ELSE IF p.stage = "egg"
        THEN IF p.warm = 0 THEN "an egg (dead)" ELSE "an egg"
        ELSE IF p.food <= 1
        THEN IF p.food = 1 THEN "a hungury " \o p.stage
             ELSE "a " \o p.stage \o " (dead)"
        ELSE IF p.stage = "young bird" THEN "a young bird" ELSE "an adult bird"

RECURSIVE Bird_describeAll(_, _)
Bird_describeAll(w, objs) ==
    IF objs = <<>> THEN ""
    ELSE "\t" \o Bird_objectDescriptionStr(w, Head(objs)) \o "\n"
         \o Bird_describeAll(w, Tail(objs))

\* World.makeDescriptionStr
Bird_makeDescriptionStr(w) ==
    "You are a mother bird in your nest.  In the nest, you see: \n"
      \o Bird_describeAll(w, w.contains[RootObject])

\* Bird.tick: the objects after it and the string it returns, if any.  An egg
\* is followed for MaxHatch ticks and a young bird for MaxGrow.
Bird_tick(w, self) ==
    LET p == w.properties[self]
    IN  IF p.stage = "egg"
        THEN LET warm  == p.warm - 1
                 hatch == p.hatch + 1
             IN  IF hatch = 5 /\ warm > 0
                 THEN [w |-> [w EXCEPT !.properties[self].warm = warm,
                                       !.properties[self].hatch = hatch,
                                       !.properties[self].stage = "young bird",
                                       !.properties[self].food = 3],
                       out |-> <<"The egg is hatched!">>,
                       bounded |-> p.hatch >= MaxHatch]
                 ELSE [w |-> [w EXCEPT !.properties[self].warm = warm,
                                       !.properties[self].hatch = hatch],
                       out |-> <<>>, bounded |-> p.hatch >= MaxHatch]
        ELSE IF p.stage = "young bird"
        THEN LET food == p.food - 1
                 grow == p.grow + 1
             IN  IF grow = 5 /\ food > 0
                 THEN [w |-> [w EXCEPT !.properties[self].food = food,
                                       !.properties[self].grow = grow,
                                       !.properties[self].stage = "adult bird"],
                       out |-> <<"The young bird grows up.">>,
                       bounded |-> p.grow >= MaxGrow]
                 ELSE [w |-> [w EXCEPT !.properties[self].food = food,
                                       !.properties[self].grow = grow],
                       out |-> <<>>, bounded |-> p.grow >= MaxGrow]
        ELSE [w |-> w, out |-> <<>>, bounded |-> FALSE]

\* for obj in allObjects: obj.tick(), keeping the strings returned.  The nest
\* is a Container, whose tick is that of GameObject and does nothing.
RECURSIVE Bird_tickAll(_, _)
Bird_tickAll(t, objs) ==
    IF objs = <<>> THEN t
    ELSE LET one == IF hasProperty(t.w, Head(objs), "stage")
                    THEN Bird_tick(t.w, Head(objs))
                    ELSE [w |-> t.w, out |-> <<>>, bounded |-> FALSE]
         IN  Bird_tickAll([w |-> one.w, out |-> t.out \o one.out,
                           bounded |-> t.bounded \/ one.bounded], Tail(objs))

Bird_doWorldTick(w) ==
    Bird_tickAll([w |-> w, out |-> <<>>, bounded |-> FALSE],
                 getAllContainedObjectsRecursive(w, RootObject))

actionSit(w, obj) ==
    IF ~ getProperty(w, obj, "stage", "egg")
    THEN Result(w, "You can't sit on that.", FALSE)
    ELSE Result([w EXCEPT !.properties[obj].warm = 3],
                "You sit on the egg and keep it warm.", TRUE)

actionFeed(w, obj) ==
    IF ~ getProperty(w, obj, "stage", "young bird")
    THEN Result(w, "You can't feed that.", FALSE)
    ELSE Result([w EXCEPT !.properties[obj].food = 3], "You feed the young bird.", TRUE)

\* The commands of the session
Bird_Commands ==
    { Cmd("look", "", "", ""), Cmd("sing", "", "", ""),
      Cmd("sit on", "egg", "", ""), Cmd("sit on", "yourself", "", ""),
      Cmd("feed", "young bird", "", ""), Cmd("feed", "egg", "", "") }

\* The list that generatePossibleActions of bird-life-cycle.py leaves under one
\* key
Bird_actionsUnder(w, allObjects, c) ==
    LET objs1 == objectsNamed(allObjects, c.r1)
    IN  CASE c \in {Cmd("look around", "", "", ""), Cmd("look", "", "", "")}
               -> << Args("look around", None, None) >>
          [] c \in {Cmd("inventory", "", "", ""), Cmd("sing", "", "", ""),
                    Cmd("fly around", "", "", "")}
               -> << Args(c.verb, None, None) >>
          [] c.verb = "sit on" /\ c.r1 # "" /\ c.prep = "" /\ c.r2 = ""
               -> [a \in 1 .. Len(objs1) |-> Args("sit", objs1[a], None)]
          [] c.verb = "feed" /\ c.r1 # "" /\ c.prep = "" /\ c.r2 = ""
               -> [a \in 1 .. Len(objs1) |-> Args("feed", objs1[a], None)]
          [] OTHER -> <<>>

\* generatePossibleActions, keeping the entries under the keys in Bird_Commands
Bird_generatePossibleActions(w) ==
    LET allObjects == makeNameToObjectDict(w)
        actions == [c \in Bird_Commands |-> Bird_actionsUnder(w, allObjects, c)]
    IN  [c \in {k \in Bird_Commands : actions[k] # <<>>} |-> actions[c]]

Bird_step_action(w, possible, actionStr) ==
    IF actionStr \notin DOMAIN possible
    THEN Result(w, NotUnderstood, FALSE)
    ELSE LET action == possible[actionStr][1]
             verb   == action.verb
         IN  CASE verb = "look around" -> Result(w, Bird_makeDescriptionStr(w), TRUE)
               [] verb = "inventory"   -> actionInventory(w)
               [] verb = "fly around"  -> Result(w, "You fly around.", TRUE)
               [] verb = "sing"        -> Result(w, "You sing.", TRUE)
               [] verb = "sit"         -> actionSit(w, action.obj1)
               [] verb = "feed"        -> actionFeed(w, action.obj1)
               [] OTHER -> Result(w, "ERROR: Unknown action.", FALSE)

\* step_tick: the strings of the ticks are added to the observation
RECURSIVE joinLines(_, _)
joinLines(obs, outs) ==
    IF outs = <<>> THEN obs ELSE joinLines(obs \o "\n" \o Head(outs), Tail(outs))

\* calculateScore of bird-life-cycle.py, object after object
RECURSIVE Bird_scoreAll(_, _, _)
Bird_scoreAll(w, sc, objs) ==
    IF objs = <<>> THEN sc
    ELSE LET obj == Head(objs)
             s1 == IF w.classOf[obj] # "Agent" /\ getProperty(w, obj, "stage", "adult bird")
                   THEN [score |-> sc.score + 1, gameOver |-> TRUE, gameWon |-> TRUE]
                   ELSE sc
             s2 == IF getProperty(w, obj, "food", 0)
                   THEN [score |-> 0, gameOver |-> TRUE, gameWon |-> FALSE]
                   ELSE s1
         IN  Bird_scoreAll(w, s2, Tail(objs))

Bird_calculateScore(w, over, won) ==
    Bird_scoreAll(w, [score |-> 0, gameOver |-> over, gameWon |-> won],
                  getAllContainedObjectsRecursive(w, RootObject))

\* main: TextGame(randomSeed), then generatePossibleActions()
Bird_Init ==
    LET w  == Bird_initializeWorld
        sc == Bird_calculateScore(w, FALSE, FALSE)
    IN  /\ UUID = w.UUID
        /\ classOf = w.classOf
        /\ name = w.name
        /\ parentContainer = w.parentContainer
        /\ contains = w.contains
        /\ properties = w.properties
        /\ session = [game |-> "bird-life-cycle"]
        /\ score = sc.score
        /\ gameOver = sc.gameOver
        /\ gameWon = sc.gameWon
        /\ observationStr = Bird_makeDescriptionStr(w)
        /\ possibleActions = Bird_generatePossibleActions(w)
        /\ reward = 0

\* One turn of the main loop, which goes on after the end of the game:
\* step is step_action, then step_tick, then step_calculate_score
Bird_Turn(actionStr) ==
    \E acted \in {Bird_step_action(World, possibleActions, actionStr)} :
    \E ticked \in {Bird_doWorldTick(acted.w)} :
    \E scored \in {Bird_calculateScore(ticked.w, gameOver, gameWon)} :
        /\ ~ ticked.bounded
        /\ SetWorld(ticked.w)
        /\ observationStr' = joinLines(acted.obs, ticked.out)
        /\ score' = scored.score
        /\ gameOver' = scored.gameOver
        /\ gameWon' = scored.gameWon
        /\ reward' = scored.score - score
        /\ possibleActions' = Bird_generatePossibleActions(ticked.w)
        /\ UNCHANGED session

Bird_Next == \E actionStr \in Bird_Commands : Bird_Turn(actionStr)

SpecBird == Bird_Init /\ [][Bird_Next]_vars

\* The main loop reads and carries out a command as long as there is one
SpecBirdPlayed == SpecBird /\ WF_vars(Bird_Next)

-----------------------------------------------------------------------------
(* hang-painting.py *)

HangObjectProperties == [isContainer |-> FALSE, isMoveable |-> TRUE]

WallProperties == [ContainerProperties EXCEPT !.isMoveable = FALSE]

\* initializeWorld with randomSeed = 1: the four walls, of which the right one
\* is the target, and two pictures, of which the second is the target
walls == << "left wall", "right wall", "front wall", "back wall" >>
all_pictures == << "picture of a palace", "picture of a car" >>
target_wall == 3
target_picture == 9

RECURSIVE Hang_addObjects(_, _, _, _)
Hang_addObjects(w, cls, names, props) ==
    IF names = <<>> THEN w
    ELSE Hang_addObjects(addObject(NewObject(w, cls, Head(names), props), RootObject, w.UUID),
                         cls, Tail(names), props)

Hang_initializeWorld ==
    LET w0 == NewObject(EmptyWorld, "Agent", "agent", ContainerProperties)
        w1 == NewObject(w0, "World", "living room", ContainerProperties)
        w2 == addObject(w1, RootObject, Agent)
        w3 == Hang_addObjects(w2, "Wall", walls, WallProperties)
        w4 == Hang_addObjects(w3, "Hammer", << "hammer" >>, HangObjectProperties)
        w5 == Hang_addObjects(w4, "Nail", << "nail" >>, ContainerProperties)
    IN  Hang_addObjects(w5, "Picture", all_pictures, HangObjectProperties)

\* What Python prints for an object that has no __str__: its class and the
\* address the object got when it was made, which differs from run to run
Addresses == { "0x7f3a5c0", "0x7f9e410" }

Hang_repr(w, ses, obj) ==
    "<__main__." \o w.classOf[obj] \o " object at " \o ses.address \o ToString(obj) \o "0>"

\* makeDescriptionStr of Nail, Wall, Picture, Hammer and Agent
Hang_objectDescriptionStr(w, ses, self) ==
    CASE w.classOf[self] = "Agent" -> "yourself"
      [] w.classOf[self] = "Nail" ->
           IF Len(w.contains[self]) = 0 THEN "a " \o w.name[self]
           ELSE "a " \o w.name[self] \o ", which has a "
                  \o Hang_repr(w, ses, w.contains[self][1]) \o " hanging on it"
      [] w.classOf[self] = "Wall" ->
           IF Len(w.contains[self]) = 0 THEN "a " \o w.name[self]
           ELSE "a nail, which has a " \o Hang_repr(w, ses, w.contains[self][1])
                  \o " hanging on it"
      [] OTHER -> "a " \o w.name[self]

RECURSIVE Hang_describeAll(_, _, _)
Hang_describeAll(w, ses, objs) ==
    IF objs = <<>> THEN ""
    ELSE "\t" \o Hang_objectDescriptionStr(w, ses, Head(objs)) \o "\n"
         \o Hang_describeAll(w, ses, Tail(objs))

\* World.makeDescriptionStr
Hang_makeDescriptionStr(w, ses) ==
    "You find yourself in a living room.  In the living room, you see: \n"
      \o Hang_describeAll(w, ses, w.contains[RootObject])

\* Nail.hang
Nail_hang(w, self, picture) ==
    IF w.classOf[picture] # "Picture"
    THEN Result(w, "The " \o w.name[picture] \o " is not a picture.", FALSE)
    ELSE IF w.classOf[w.parentContainer[self]] # "Wall"
    THEN Result(w, "You can't hang the " \o w.name[picture]
                   \o " on the nail because it is not hammered on a wall.", FALSE)
    ELSE IF Len(w.contains[self]) > 0
    THEN Result(w, "Another picture already hangs on the nail.", FALSE)
    ELSE Result(addObject(w, self, picture),
                "You hang the " \o w.name[picture] \o " on the " \o w.name[self] \o ".", TRUE)

\* Wall.hammer
Wall_hammer(w, self, nail) ==
    IF w.classOf[nail] = "Nail" THEN addObject(w, self, nail) ELSE w

\* actionHammer; its two inventory checks both read the nail's container
actionHammer(w, ses, nail, wall, hammer) ==
    IF w.classOf[nail] # "Nail"
    THEN Result(w, "You can't hammer " \o w.name[nail] \o ".", FALSE)
    ELSE IF w.classOf[wall] # "Wall"
    THEN Result(w, "You can't hammer " \o Hang_repr(w, ses, nail) \o " on "
                   \o w.name[wall] \o ".", FALSE)
    ELSE IF w.classOf[hammer] # "Hammer"
    THEN Result(w, "You can't hammer with " \o w.name[hammer] \o ".", FALSE)
    ELSE IF w.classOf[w.parentContainer[nail]] # "Agent"
    THEN Result(w, "You need to take the " \o w.name[nail] \o " first.", FALSE)
    ELSE IF w.classOf[w.parentContainer[nail]] # "Agent"
    THEN Result(w, "You don't have the " \o w.name[hammer] \o ".", FALSE)
    ELSE Result(Wall_hammer(w, wall, nail),
                "The " \o w.name[nail] \o " is hammered on the " \o w.name[wall] \o ".", TRUE)

actionHang(w, picture, nail) ==
    IF w.classOf[nail] # "Nail"
    THEN Result(w, "You can't hang the " \o w.name[picture] \o " on the "
                   \o w.name[nail] \o ".", FALSE)
    ELSE IF w.classOf[w.parentContainer[picture]] # "Agent"
    THEN Result(w, "You need to take the " \o w.name[picture] \o " first.", FALSE)
    ELSE Nail_hang(w, nail, picture)

\* A command of hang-painting.py: `hammer r1 on r2 with r3` has three referents
Hang_Cmd(verb, r1, prep, r2, r3) ==
    [verb |-> verb, r1 |-> r1, prep |-> prep, r2 |-> r2, r3 |-> r3]

Hang_Args(verb, obj1, obj2, obj3) ==
    [verb |-> verb, obj1 |-> obj1, obj2 |-> obj2, obj3 |-> obj3]

TheNail == "nail (ID: 7)"
TheHammer == "hammer (ID: 6)"
LeftWall == "left wall (ID: 2)"
RightWall == "right wall (ID: 3)"
LivingRoom == "living room (ID: 1)"
PictureOfACar == "picture of a car (ID: 9)"
PictureOfAPalace == "picture of a palace (ID: 8)"

\* The commands of the session
Hang_Commands ==
    { Hang_Cmd("look", "", "", "", ""),
      Hang_Cmd("take", TheNail, "", "", ""),
      Hang_Cmd("take", TheHammer, "", "", ""),
      Hang_Cmd("take", PictureOfACar, "", "", ""),
      Hang_Cmd("take", PictureOfAPalace, "", "", ""),
      Hang_Cmd("put", TheHammer, "in", LivingRoom, ""),
      Hang_Cmd("put", TheNail, "in", RightWall, ""),
      Hang_Cmd("hammer", TheNail, "on", RightWall, TheHammer),
      Hang_Cmd("hammer", TheNail, "on", LeftWall, TheHammer),
      Hang_Cmd("hammer", TheHammer, "on", RightWall, TheNail),
      Hang_Cmd("hang", PictureOfACar, "on", TheNail, ""),
      Hang_Cmd("hang", PictureOfAPalace, "on", TheNail, ""),
      Hang_Cmd("hang", TheHammer, "on", TheNail, "") }

\* The list that generatePossibleActions of hang-painting.py leaves under one key
Hang_actionsUnder(w, allObjects, c) ==
    LET objs1 == objectsNamed(allObjects, c.r1)
        objs2 == objectsNamed(allObjects, c.r2)
        objs3 == objectsNamed(allObjects, c.r3)
    IN  CASE c \in {Hang_Cmd("look around", "", "", "", ""), Hang_Cmd("look", "", "", "", "")}
               -> << Hang_Args("look around", None, None, None) >>
          [] c = Hang_Cmd("inventory", "", "", "", "")
               -> << Hang_Args("inventory", None, None, None) >>
          [] c.verb = "take" /\ c.r1 # "" /\ c.prep = "" /\ c.r2 = "" /\ c.r3 = ""
               -> [a \in 1 .. Len(objs1) |-> Hang_Args("take", objs1[a], None, None)]
          [] c.verb = "put" /\ c.r1 # "" /\ c.r2 # "" /\ c.r3 = ""
               -> IF objs1 # <<>> /\ objs2 # <<>> /\ objs1[1] # objs2[1]
                     /\ c.prep = containerPrefixOf(w, objs2[1])
                  THEN << Hang_Args("put", objs1[1], objs2[1], None) >>
                  ELSE <<>>
          [] c.verb = "hang" /\ c.r1 # "" /\ c.prep = "on" /\ c.r2 # "" /\ c.r3 = ""
               -> IF objs1 # <<>> /\ objs2 # <<>> /\ objs1[1] # objs2[1]
                  THEN << Hang_Args("hang", objs1[1], objs2[1], None) >>
                  ELSE <<>>
          [] c.verb = "hammer" /\ c.r1 # "" /\ c.prep = "on" /\ c.r2 # "" /\ c.r3 # ""
               -> IF objs1 # <<>> /\ objs2 # <<>> /\ objs3 # <<>>
                     /\ objs1[1] # objs2[1] /\ objs2[1] # objs3[1] /\ objs3[1] # objs1[1]
                  THEN << Hang_Args("hammer", objs1[1], objs2[1], objs3[1]) >>
                  ELSE <<>>
          [] OTHER -> <<>>

Hang_generatePossibleActions(w) ==
    LET allObjects == makeNameToObjectDict(w)
        actions == [c \in Hang_Commands |-> Hang_actionsUnder(w, allObjects, c)]
    IN  [c \in {k \in Hang_Commands : actions[k] # <<>>} |-> actions[c]]

Hang_step_action(w, ses, possible, actionStr) ==
    IF actionStr \notin DOMAIN possible
    THEN Result(w, NotUnderstood, FALSE)
    ELSE LET action == possible[actionStr][1]
             verb   == action.verb
         IN  CASE verb = "look around" -> Result(w, Hang_makeDescriptionStr(w, ses), TRUE)
               [] verb = "inventory"   -> actionInventory(w)
               [] verb = "take"        -> actionTake(w, action.obj1)
               [] verb = "put"         -> actionPut(w, action.obj1, action.obj2)
               [] verb = "hammer"      -> actionHammer(w, ses, action.obj1, action.obj2, action.obj3)
               [] verb = "hang"        -> actionHang(w, action.obj1, action.obj2)
               [] OTHER -> Result(w, "ERROR: Unknown action.", FALSE)

\* containsItemWithName
containsItemWithName(w, self, objName) ==
    SelectSeq(w.contains[self], LAMBDA obj : w.name[obj] = objName)

\* calculateScore of hang-painting.py, object after object
RECURSIVE Hang_scoreAll(_, _, _, _)
Hang_scoreAll(w, ses, sc, objs) ==
    IF objs = <<>> THEN sc
    ELSE LET obj    == Head(objs)
             parent == w.parentContainer[obj]
             s1 == IF w.classOf[obj] # "Nail" THEN sc
                   ELSE IF parent # ses.target_wall /\ w.classOf[parent] = "Wall"
                   THEN [score |-> 0, gameOver |-> TRUE, gameWon |-> FALSE]
                   ELSE IF parent = ses.target_wall
                           /\ containsItemWithName(w, obj, w.name[ses.target_picture]) # <<>>
                   THEN [score |-> 1, gameOver |-> TRUE, gameWon |-> TRUE]
                   ELSE sc
         IN  Hang_scoreAll(w, ses, s1, Tail(objs))

Hang_calculateScore(w, ses, sc, over, won) ==
    Hang_scoreAll(w, ses, [score |-> sc, gameOver |-> over, gameWon |-> won],
                  getAllContainedObjectsRecursive(w, RootObject))

\* TextGame(randomSeed = 1), then generatePossibleActions()
Hang_Init ==
    LET w == Hang_initializeWorld
    IN  /\ UUID = w.UUID
        /\ classOf = w.classOf
        /\ name = w.name
        /\ parentContainer = w.parentContainer
        /\ contains = w.contains
        /\ properties = w.properties
        /\ \E address \in Addresses :
             session = [game |-> "hang-painting", target_wall |-> target_wall,
                        target_picture |-> target_picture, address |-> address]
        /\ score = 0
        /\ gameOver = FALSE
        /\ gameWon = FALSE
        /\ observationStr \in {Hang_makeDescriptionStr(w, session)}
        /\ possibleActions = Hang_generatePossibleActions(w)
        /\ reward = 0

\* One turn of the main loop, which goes on after the end of the game: step is
\* step_action, then step_tick (no object of this game has a tick of its own),
\* then step_calculate_score
Hang_Turn(actionStr) ==
    \E acted \in {Hang_step_action(World, session, possibleActions, actionStr)} :
    \E scored \in {Hang_calculateScore(acted.w, session, score, gameOver, gameWon)} :
        /\ SetWorld(acted.w)
        /\ observationStr' = acted.obs
        /\ score' = scored.score
        /\ gameOver' = scored.gameOver
        /\ gameWon' = scored.gameWon
        /\ reward' = scored.score - score
        /\ possibleActions' = Hang_generatePossibleActions(acted.w)
        /\ UNCHANGED session

Hang_Next == \E actionStr \in Hang_Commands : Hang_Turn(actionStr)

SpecHang == Hang_Init /\ [][Hang_Next]_vars

-----------------------------------------------------------------------------
(* inclined-plane.py *)

\* The ticks a session is followed for: an object on a plane, a running stopwatch
MaxPlaneTicks == 3
MaxStopwatchTicks == 2

GameObjectProperties == [isContainer |-> FALSE, isMoveable |-> TRUE]

InclinedPlaneProperties(acceleration) ==
    [isContainer |-> TRUE, isMoveable |-> FALSE, isOpenable |-> FALSE, isOpen |-> TRUE,
     containerPrefix |-> "on", acceleration |-> acceleration, length |-> 100,
     objects |-> [n \in {} |-> 0]]

StopwatchProperties ==
    [isContainer |-> FALSE, isMoveable |-> TRUE, isActivated |-> FALSE, tick |-> 0]

\* random.sample([0.5, 1, 1.5, 2], 2) with randomSeed = 0
a1 == 2
a2 == 1

\* initializeWorld: the answer is the plane with the smaller acceleration
Plane_initializeWorld ==
    LET w0 == NewObject(EmptyWorld, "Agent", "agent", ContainerProperties)
        w1 == addObject(NewObject(w0, "World", "workshop", ContainerProperties),
                        RootObject, Agent)
        w2 == addObject(NewObject(w1, "InclinedPlane", "inclined plane 1",
                                  InclinedPlaneProperties(a1)), RootObject, w1.UUID)
        w3 == addObject(NewObject(w2, "InclinedPlane", "inclined plane 2",
                                  InclinedPlaneProperties(a2)), RootObject, w2.UUID)
        w4 == addObject(NewObject(w3, "GameObject", "block", GameObjectProperties),
                        RootObject, w3.UUID)
    IN  addObject(NewObject(w4, "Stopwatch", "stopwatch", StopwatchProperties),
                  RootObject, w4.UUID)

answer == IF a1 < a2 THEN 2 ELSE 3

\* rate*100 as Python prints it: distance = 0.5 * acceleration * ticks ** 2, a
\* rate of round(distance / length, 3), or the integer 1 beyond the length
percentDown(acceleration, length, ticks) ==
    LET twice == acceleration * ticks * ticks
    IN  IF twice > 2 * length THEN "100"
        ELSE ToString(twice \div 2) \o (IF twice % 2 = 1 THEN ".5" ELSE ".0")

RECURSIVE Plane_describeObjects(_, _, _)
Plane_describeObjects(w, self, objs) ==
    IF objs = <<>> THEN ""
    ELSE LET p == w.properties[self]
             n == w.name[Head(objs)]
         IN  "a " \o n \o " approximately "
               \o percentDown(p.acceleration, p.length, p.objects[n]) \o "% down the plane"
               \o (IF Tail(objs) = <<>> THEN "" ELSE ",")
               \o Plane_describeObjects(w, self, Tail(objs))

\* makeDescriptionStr of InclinedPlane, Stopwatch, Agent and GameObject
Plane_objectDescriptionStr(w, self, makeDetailed) ==
    CASE w.classOf[self] = "Agent" -> "yourself"
      [] w.classOf[self] = "InclinedPlane" ->
           IF Len(w.contains[self]) = 0 THEN "an " \o w.name[self]
           ELSE "an " \o w.name[self] \o ", with:"
                  \o Plane_describeObjects(w, self, w.contains[self])
      [] w.classOf[self] = "Stopwatch" ->
           "a " \o w.name[self] \o ", which is "
             \o (IF w.properties[self].isActivated THEN "activated" ELSE "deactivated")
             \o (IF makeDetailed
                 THEN ". The time reads " \o ToString(w.properties[self].tick) \o " ticks."
                 ELSE "")
      [] OTHER -> w.name[self]

RECURSIVE Plane_describeAll(_, _)
Plane_describeAll(w, objs) ==
    IF objs = <<>> THEN ""
    ELSE "\t" \o Plane_objectDescriptionStr(w, Head(objs), FALSE) \o "\n"
         \o Plane_describeAll(w, Tail(objs))

\* World.makeDescriptionStr
Plane_makeDescriptionStr(w) ==
    "You find yourself in a workshop.  In the workshop, you see: \n"
      \o Plane_describeAll(w, w.contains[RootObject])

\* InclinedPlane.tick and Stopwatch.tick
Plane_tick(w, self) ==
    CASE w.classOf[self] = "InclinedPlane" ->
           [w EXCEPT !.properties[self].objects =
                       [n \in DOMAIN @ |->
                          IF n \in {w.name[o] : o \in Range(w.contains[self])}
                          THEN @[n] + 1 ELSE @[n]]]
      [] w.classOf[self] = "Stopwatch" /\ w.properties[self].isActivated ->
           [w EXCEPT !.properties[self].tick = @ + 1]
      [] OTHER -> w

RECURSIVE Plane_tickAll(_, _)
Plane_tickAll(w, objs) ==
    IF objs = <<>> THEN w ELSE Plane_tickAll(Plane_tick(w, Head(objs)), Tail(objs))

Plane_doWorldTick(w) == Plane_tickAll(w, getAllContainedObjectsRecursive(w, RootObject))

\* A count of ticks beyond the ones the session is followed for
Plane_bounded(w) ==
    \E o \in Ids :
       \/ w.classOf[o] = "InclinedPlane"
            /\ \E n \in DOMAIN w.properties[o].objects : w.properties[o].objects[n] > MaxPlaneTicks
       \/ w.classOf[o] = "Stopwatch" /\ w.properties[o].tick > MaxStopwatchTicks

actionActivate(w, stopwatch) ==
    IF w.classOf[stopwatch] # "Stopwatch"
    THEN Result(w, "You can't activate the " \o w.name[stopwatch] \o ".", FALSE)
    ELSE IF w.classOf[w.parentContainer[stopwatch]] # "Agent"
    THEN Result(w, "You should take the " \o w.name[stopwatch] \o " first.", FALSE)
    ELSE IF ~ w.properties[stopwatch].isActivated
    THEN Result([w EXCEPT !.properties[stopwatch].isActivated = TRUE],
                "You activate the " \o w.name[stopwatch] \o ".", TRUE)
    ELSE Result(w, "The " \o w.name[stopwatch] \o " has already been activated.", FALSE)

actionDeactivate(w, stopwatch) ==
    IF w.classOf[stopwatch] # "Stopwatch"
    THEN Result(w, "You can't deactivate the " \o w.name[stopwatch] \o ".", FALSE)
    ELSE IF w.classOf[w.parentContainer[stopwatch]] # "Agent"
    THEN Result(w, "You should take the " \o w.name[stopwatch] \o " first.", FALSE)
    ELSE IF w.properties[stopwatch].isActivated
    THEN Result([w EXCEPT !.properties[stopwatch].isActivated = FALSE],
                "You deactivate the " \o w.name[stopwatch] \o ".", TRUE)
    ELSE Result(w, "The " \o w.name[stopwatch] \o " has already been deactivated.", FALSE)

actionReset(w, stopwatch) ==
    IF w.classOf[stopwatch] # "Stopwatch"
    THEN Result(w, "You can't reset the " \o w.name[stopwatch] \o ".", FALSE)
    ELSE IF w.classOf[w.parentContainer[stopwatch]] # "Agent"
    THEN Result(w, "You should take the " \o w.name[stopwatch] \o " first.", FALSE)
    ELSE Result([w EXCEPT !.properties[stopwatch].isActivated = FALSE,
                          !.properties[stopwatch].tick = 0],
                "You reset the " \o w.name[stopwatch] \o ".", TRUE)

\* actionFocus: the observation and the new agent_answer
actionFocus(w, ses, inclined_plane) ==
    IF w.classOf[inclined_plane] # "InclinedPlane"
    THEN [obs |-> "You can't focus on the " \o w.name[inclined_plane] \o ".", ses |-> ses]
    ELSE [obs |-> "You focus on the " \o w.name[inclined_plane] \o ".",
          ses |-> [ses EXCEPT !.agent_answer = inclined_plane]]

Plane1 == "inclined plane 1 (ID: 2)"
Plane2 == "inclined plane 2 (ID: 3)"
Block == "block (ID: 4)"
Stopwatch == "stopwatch (ID: 5)"

\* The commands of the session
Plane_Commands ==
    { Cmd("look", "", "", ""),
      Cmd("take", Block, "", ""), Cmd("take", Stopwatch, "", ""),
      Cmd("put", Block, "on", Plane1), Cmd("put", Block, "on", Plane2),
      Cmd("examine", Stopwatch, "", ""),
      Cmd("activate", Stopwatch, "", ""), Cmd("deactivate", Stopwatch, "", ""),
      Cmd("reset", Stopwatch, "", ""),
      Cmd("focus on", Plane1, "", ""), Cmd("focus on", Plane2, "", ""),
      Cmd("focus on", Block, "", "") }

\* The list that generatePossibleActions of inclined-plane.py leaves under one
\* key
Plane_actionsUnder(w, allObjects, c) ==
    LET objs1 == objectsNamed(allObjects, c.r1)
        objs2 == objectsNamed(allObjects, c.r2)
    IN  CASE c \in {Cmd("look around", "", "", ""), Cmd("look", "", "", "")}
               -> << Args("look around", None, None) >>
          [] c = Cmd("inventory", "", "", "")
               -> << Args("inventory", None, None) >>
          [] c.verb \in {"take", "examine", "activate", "deactivate", "reset"}
               /\ c.r1 # "" /\ c.prep = "" /\ c.r2 = ""
               -> [a \in 1 .. Len(objs1) |-> Args(c.verb, objs1[a], None)]
          [] c.verb = "focus on" /\ c.r1 # "" /\ c.prep = "" /\ c.r2 = ""
               -> [a \in 1 .. Len(objs1) |-> Args("focus", objs1[a], None)]
          [] c.verb = "put" /\ c.r1 # "" /\ c.r2 # ""
               -> IF objs1 # <<>> /\ objs2 # <<>> /\ objs1[1] # objs2[1]
                     /\ c.prep = containerPrefixOf(w, objs2[1])
                  THEN << Args("put", objs1[1], objs2[1]) >>
                  ELSE <<>>
          [] OTHER -> <<>>

Plane_generatePossibleActions(w) ==
    LET allObjects == makeNameToObjectDict(w)
        actions == [c \in Plane_Commands |-> Plane_actionsUnder(w, allObjects, c)]
    IN  [c \in {k \in Plane_Commands : actions[k] # <<>>} |-> actions[c]]

\* step_action: the objects, the observation and the session fields it leaves
Plane_step_action(w, ses, possible, actionStr) ==
    IF actionStr \notin DOMAIN possible
    THEN [w |-> w, obs |-> NotUnderstood, ses |-> ses]
    ELSE LET action == possible[actionStr][1]
             verb   == action.verb
             Of(r)  == [w |-> r.w, obs |-> r.obs, ses |-> ses]
         IN  CASE verb = "look around" -> [w |-> w, obs |-> Plane_makeDescriptionStr(w), ses |-> ses]
               [] verb = "inventory"   -> Of(actionInventory(w))
               [] verb = "examine"
                    -> [w |-> w, obs |-> Plane_objectDescriptionStr(w, action.obj1, TRUE),
                        ses |-> ses]
               [] verb = "take"        -> Of(actionTake(w, action.obj1))
               [] verb = "put"         -> Of(actionPut(w, action.obj1, action.obj2))
               [] verb = "activate"    -> Of(actionActivate(w, action.obj1))
               [] verb = "deactivate"  -> Of(actionDeactivate(w, action.obj1))
               [] verb = "reset"       -> Of(actionReset(w, action.obj1))
               [] verb = "focus"
                    -> [w |-> w, obs |-> actionFocus(w, ses, action.obj1).obs,
                        ses |-> actionFocus(w, ses, action.obj1).ses]
               [] OTHER -> [w |-> w, obs |-> "ERROR: Unknown action.", ses |-> ses]

\* calculateScore of inclined-plane.py
Plane_calculateScore(ses, sc, over, won) ==
    IF ses.agent_answer # None
    THEN IF ses.answer = ses.agent_answer
         THEN [score |-> 1, gameOver |-> TRUE, gameWon |-> TRUE]
         ELSE [score |-> 1, gameOver |-> TRUE, gameWon |-> FALSE]
    ELSE [score |-> sc, gameOver |-> over, gameWon |-> won]

\* TextGame(randomSeed = 0), then generatePossibleActions()
Plane_Init ==
    LET w == Plane_initializeWorld
    IN  /\ UUID = w.UUID
        /\ classOf = w.classOf
        /\ name = w.name
        /\ parentContainer = w.parentContainer
        /\ contains = w.contains
        /\ properties = w.properties
        /\ session = [game |-> "inclined-plane", answer |-> answer, agent_answer |-> None]
        /\ score = 0
        /\ gameOver = FALSE
        /\ gameWon = FALSE
        /\ observationStr = Plane_makeDescriptionStr(w)
        /\ possibleActions = Plane_generatePossibleActions(w)
        /\ reward = 0

\* One turn of the main loop, which goes on after the end of the game: step is
\* step_action, then step_tick, then step_calculate_score
Plane_Turn(actionStr) ==
    \E acted \in {Plane_step_action(World, session, possibleActions, actionStr)} :
    \E ticked \in {Plane_doWorldTick(acted.w)} :
    \E scored \in {Plane_calculateScore(acted.ses, score, gameOver, gameWon)} :
        /\ ~ Plane_bounded(ticked)
        /\ SetWorld(ticked)
        /\ session' = acted.ses
        /\ observationStr' = acted.obs
        /\ score' = scored.score
        /\ gameOver' = scored.gameOver
        /\ gameWon' = scored.gameWon
        /\ reward' = scored.score - score
        /\ possibleActions' = Plane_generatePossibleActions(ticked)

Plane_Next == \E actionStr \in Plane_Commands : Plane_Turn(actionStr)

SpecPlane == Plane_Init /\ [][Plane_Next]_vars

-----------------------------------------------------------------------------
(* clean-energy.py *)

\* This game has no agent: the world is the first object made
Energy_rootObject == 0

capacity_per_plant == 1000

RegionProperties(resource) ==
    [isContainer |-> TRUE, isMoveable |-> TRUE, isOpenable |-> FALSE, isOpen |-> TRUE,
     containerPrefix |-> "in", resource |-> resource]

\* running_efficiency is 0.1 or 1 in the source; it is kept here in tenths
PowerPlantProperties(efficiency, capasity) ==
    [isContainer |-> FALSE, isMoveable |-> TRUE,
     running_efficiency |-> efficiency, capacityKW |-> capasity]

\* A power station that does not find its resource in the region runs at 0.1
efficiencyIn(power_station, resource) ==
    IF \/ power_station = "solar farm" /\ resource # "sun"
       \/ power_station = "wind farm" /\ resource # "wind"
       \/ power_station = "hydroelectric power station" /\ resource # "water"
    THEN 1 ELSE 10

\* initializeWorld with randomSeed = 2: three regions
power_stations ==
    << << "fossil-fuel power station", "sun" >>,
       << "hydroelectric power station", "water" >>,
       << "hydroelectric power station", "water" >> >>

RECURSIVE Energy_addRegions(_, _)
Energy_addRegions(w, n) ==
    IF n > Len(power_stations) THEN w
    ELSE LET power_station == power_stations[n]
             region == w.UUID
             w1 == NewObject(w, "Region", "region " \o ToString(n - 1),
                             RegionProperties(power_station[2]))
             w2 == NewObject(w1, "PowerPlant", power_station[1],
                             PowerPlantProperties(efficiencyIn(power_station[1], power_station[2]),
                                                  capacity_per_plant))
             w3 == addObject(w2, region, w1.UUID)
         IN  Energy_addRegions(addObject(w3, Energy_rootObject, region), n + 1)

Energy_initializeWorld ==
    Energy_addRegions(NewObject(EmptyWorld, "World", "world", ContainerProperties), 1)

\* PowerPlant.makeDescriptionStr: running_efficiency*100 prints as 100 for the
\* integer 1 and as 10.0 for 0.1
PowerPlant_makeDescriptionStr(w, self) ==
    "a " \o w.name[self] \o ", whose current generation capasity is "
      \o ToString(w.properties[self].capacityKW) \o "kW and is at "
      \o (IF w.properties[self].running_efficiency = 10 THEN "100" ELSE "10.0")
      \o "% efficiency"

Region_makeDescriptionStr(w, self) ==
    w.name[self] \o " "
      \o (CASE w.properties[self].resource = "sun" -> "has enough sunshine all year round."
            [] w.properties[self].resource = "water" -> "is near a large river."
            [] w.properties[self].resource = "wind" -> "has steady wind.")
      \o " It has " \o PowerPlant_makeDescriptionStr(w, w.contains[self][1]) \o "."

RECURSIVE Energy_describeAll(_, _)
Energy_describeAll(w, objs) ==
    IF objs = <<>> THEN ""
    ELSE "\t" \o Region_makeDescriptionStr(w, Head(objs)) \o "\n"
         \o Energy_describeAll(w, Tail(objs))

\* World.makeDescriptionStr
Energy_makeDescriptionStr(w) ==
    "You are in charge of " \o ToString(Len(w.contains[Energy_rootObject]))
      \o " regions. Modify power plants in the regions to use clean energy. \n"
      \o Energy_describeAll(w, w.contains[Energy_rootObject])

PowerStations ==
    { "solar farm", "wind farm", "hydroelectric power station", "fossil-fuel power station" }

\* str.capitalize() of the name of the n-th region, "region n (ID: u)"
Region_capitalizedName(w, region) ==
    LET regions == w.contains[Energy_rootObject]
        n == (CHOOSE i \in 1 .. Len(regions) : regions[i] = region) - 1
    IN  "Region " \o ToString(n) \o " (id: " \o ToString(region) \o ")"

\* actionChange: the new power plant is written into the first place of the
\* region's list; nothing else of the region or of the plants is touched
actionChange(w, region, power_station) ==
    IF power_station \notin PowerStations
    THEN Result(w, "Unknown power station.", FALSE)
    ELSE IF w.classOf[region] # "Region"
    THEN Result(w, w.name[region] \o " is not a region.", FALSE)
    ELSE IF w.UUID >= MaxUUID
    THEN [Result(w, "", FALSE) EXCEPT !.bounded = TRUE]
    ELSE LET efficiency == efficiencyIn(power_station, w.properties[region].resource)
             new_power_station == w.UUID
             w1 == NewObject(w, "PowerPlant", power_station,
                             PowerPlantProperties(efficiency, capacity_per_plant))
         IN  Result([w1 EXCEPT !.contains[region][1] = new_power_station],
                    Region_capitalizedName(w, region) \o " now has a "
                      \o power_station \o ".", TRUE)

Region0 == "region 0 (ID: 1)"
Region1 == "region 1 (ID: 3)"
FossilPlant == "fossil-fuel power station (ID: 2)"

\* The commands of the session
Energy_Commands ==
    { Cmd("look", "", "", ""),
      Cmd("change", Region0, "to", "solar farm"),
      Cmd("change", Region0, "to", "wind farm"),
      Cmd("change", Region0, "to", "fossil-fuel power station"),
      Cmd("change", Region1, "to", "solar farm"),
      Cmd("change", Region1, "to", "hydroelectric power station"),
      Cmd("change", FossilPlant, "to", "solar farm"),
      Cmd("change", Region0, "to", "nuclear power station") }

Energy_makeNameToObjectDict(w) ==
    addObjectsByName(w, <<>>, getAllContainedObjectsRecursive(w, Energy_rootObject))

\* The list that generatePossibleActions of clean-energy.py leaves under one key
Energy_actionsUnder(w, allObjects, c) ==
    LET objs1 == objectsNamed(allObjects, c.r1)
    IN  CASE c \in {Cmd("look around", "", "", ""), Cmd("look", "", "", "")}
               -> << Args("look around", None, None) >>
          [] c.verb = "change" /\ c.r1 # "" /\ c.prep = "to" /\ c.r2 \in PowerStations
               -> [a \in 1 .. Len(objs1) |-> Args("change", objs1[a], c.r2)]
          [] OTHER -> <<>>

Energy_generatePossibleActions(w) ==
    LET allObjects == Energy_makeNameToObjectDict(w)
        actions == [c \in Energy_Commands |-> Energy_actionsUnder(w, allObjects, c)]
    IN  [c \in {k \in Energy_Commands : actions[k] # <<>>} |-> actions[c]]

Energy_step_action(w, possible, actionStr) ==
    IF actionStr \notin DOMAIN possible
    THEN Result(w, NotUnderstood, FALSE)
    ELSE LET action == possible[actionStr][1]
             verb   == action.verb
         IN  CASE verb = "look around" -> Result(w, Energy_makeDescriptionStr(w), TRUE)
               [] verb = "change"      -> actionChange(w, action.obj1, action.obj2)
               [] OTHER -> Result(w, "ERROR: Unknown action.", FALSE)

\* calculateScore of clean-energy.py, region after region: whether a fossil-fuel
\* power station was met, and the capacity counted before it (in tenths of kW)
RECURSIVE Energy_capacities(_, _, _)
Energy_capacities(w, objs, sum) ==
    IF objs = <<>> THEN [all_clean |-> TRUE, total_capasity |-> sum]
    ELSE LET power_plant == w.contains[Head(objs)][1]
         IN  IF w.name[power_plant]
                  = "fossil-fuel power station (ID: " \o ToString(power_plant) \o ")"
             THEN [all_clean |-> FALSE, total_capasity |-> sum]
             ELSE Energy_capacities(w, Tail(objs),
                      sum + w.properties[power_plant].running_efficiency
                              * w.properties[power_plant].capacityKW)

Energy_calculateScore(w, ses, over, won) ==
    LET c == Energy_capacities(w, w.contains[Energy_rootObject], 0)
    IN  IF c.all_clean /\ c.total_capasity >= 10 * ses.capacity_requirement
        THEN [score |-> 1, gameOver |-> TRUE, gameWon |-> TRUE]
        ELSE [score |-> 0, gameOver |-> over, gameWon |-> won]

\* TextGame(randomSeed = 2), then generatePossibleActions()
Energy_Init ==
    LET w  == Energy_initializeWorld
        ses == [game |-> "clean-energy", capacity_per_plant |-> capacity_per_plant,
                capacity_requirement |-> Len(power_stations) * capacity_per_plant]
        sc == Energy_calculateScore(w, ses, FALSE, FALSE)
    IN  /\ UUID = w.UUID
        /\ classOf = w.classOf
        /\ name = w.name
        /\ parentContainer = w.parentContainer
        /\ contains = w.contains
        /\ properties = w.properties
        /\ session = ses
        /\ score = sc.score
        /\ gameOver = sc.gameOver
        /\ gameWon = sc.gameWon
        /\ observationStr = Energy_makeDescriptionStr(w)
        /\ possibleActions = Energy_generatePossibleActions(w)
        /\ reward = 0

\* One turn of the main loop, which goes on after the end of the game: step is
\* step_action, then step_tick (no object of this game has a tick of its own),
\* then step_calculate_score
Energy_Turn(actionStr) ==
    \E acted \in {Energy_step_action(World, possibleActions, actionStr)} :
    \E scored \in {Energy_calculateScore(acted.w, session, gameOver, gameWon)} :
        /\ ~ acted.bounded
        /\ SetWorld(acted.w)
        /\ observationStr' = acted.obs
        /\ score' = scored.score
        /\ gameOver' = scored.gameOver
        /\ gameWon' = scored.gameWon
        /\ reward' = scored.score - score
        /\ possibleActions' = Energy_generatePossibleActions(acted.w)
        /\ UNCHANGED session

Energy_Next == \E actionStr \in Energy_Commands : Energy_Turn(actionStr)

SpecEnergy == Energy_Init /\ [][Energy_Next]_vars

-----------------------------------------------------------------------------
(* Unmatched commands *)

tree == <<UUID, classOf, name, parentContainer, contains, properties>>

\* A turn whose string has no entry in the catalog
UnmatchedTurn == \E c \in Commands : c \notin DOMAIN possibleActions /\ Turn(c)

\* C1: a step whose string matches no catalog entry leaves every object's
\* properties, parent and children as they were, devices that are switched on
\* included.
C1_UnmatchedStepLeavesWorld == [][UnmatchedTurn => UNCHANGED tree]_vars

\* C2: a step whose string matches no catalog entry answers "I don't understand
\* that." with reward 0 and leaves score, gameOver and gameWon as they were.
C2_UnmatchedStepResult ==
    [][UnmatchedTurn => /\ observationStr' = NotUnderstood
                        /\ reward' = 0
                        /\ UNCHANGED <<score, gameOver, gameWon>>]_vars

-----------------------------------------------------------------------------
(* volume-container.py.  GameObject and Container are those of dishwasher.py; *)
(* a WaterContainer runs the constructor of GameObject only.                  *)

SinkProperties ==
    [isContainer |-> TRUE, isMoveable |-> FALSE, isOpenable |-> FALSE,
     isOpen |-> TRUE, containerPrefix |-> "in", isActivatable |-> TRUE, isOn |-> FALSE]

\* The value of the uuid counter at which a volume-container session creates no
\* more water: its world has 9 objects when the session begins
MaxWaterUUID == 11

\* WaterContainer.__init__
WaterContainerProperties(volume) ==
    [isContainer |-> FALSE, isMoveable |-> TRUE, isWaterContainer |-> TRUE,
     volume |-> volume]

\* Water.__init__
WaterProperties(volume) ==
    [isContainer |-> FALSE, isMoveable |-> TRUE, isLiquid |-> TRUE, volume |-> volume]

\* Container.takeObjectFromContainer of volume-container.py
Volume_takeObjectFromContainer(w, self, obj) ==
    IF ~ getProperty(w, self, "isContainer", TRUE)
    THEN Result(w, "The " \o w.name[self]
                   \o " is not a container, so things can't be removed from it.", FALSE)
    ELSE IF ~ getProperty(w, obj, "isMoveable", TRUE)
    THEN Result(w, "The " \o w.name[obj] \o " is not moveable.", FALSE)
    ELSE IF getProperty(w, obj, "isLiquid", TRUE)
    THEN Result(w, "The " \o w.name[obj] \o " is liquid and cannot be taken directly.",
                FALSE)
    ELSE IF ~ getProperty(w, self, "isOpen", TRUE)
    THEN Result(w, "The " \o w.name[self]
                   \o " is closed, so things can't be removed from it.", FALSE)
    ELSE IF obj \notin Range(w.contains[self])
    THEN Result(w, "The " \o w.name[obj] \o " is not contained in the "
                   \o w.name[self] \o ".", FALSE)
    ELSE Result(removeSelfFromContainer(w, obj), "", TRUE)

\* The first Water in obj.contains, or None
firstWater(w, obj) ==
    LET waters == SelectSeq(w.contains[obj], LAMBDA o : w.classOf[o] = "Water")
    IN  IF waters = <<>> THEN None ELSE waters[1]

\* Sink.tick, for the objects that were in the sink when the tick began: a
\* water container without water gets a new Water of its volume, the water of
\* the others is brought to the volume of its container
RECURSIVE Sink_tickObjects(_, _)
Sink_tickObjects(t, objs) ==
    IF objs = <<>> THEN t
    ELSE LET w   == t.w
             obj == Head(objs)
             foundObject == firstWater(w, obj)
             volume == w.properties[obj].volume
         IN  Sink_tickObjects(
               IF w.classOf[obj] \notin {"WaterContainer", "GraduatedCylinder"} THEN t
               ELSE IF foundObject # None
               THEN [t EXCEPT !.w.properties[foundObject].volume = volume]
               ELSE IF w.UUID >= MaxWaterUUID THEN [t EXCEPT !.bounded = TRUE]
               ELSE [t EXCEPT !.w = addObject(NewObject(w, "Water", "water",
                                                        WaterProperties(volume)),
                                              obj, w.UUID)],
               Tail(objs))

Sink_tick(t, self) ==
    IF t.w.properties[self].isOn
    THEN Sink_tickObjects(t, getAllContainedObjectsRecursive(t.w, self))
    ELSE t

RECURSIVE Volume_tickAll(_, _)
Volume_tickAll(t, objs) ==
    IF objs = <<>> THEN t
    ELSE Volume_tickAll(IF t.w.classOf[Head(objs)] = "Sink"
                        THEN Sink_tick(t, Head(objs)) ELSE t, Tail(objs))

\* doWorldTick of volume-container.py: the world it leaves, and whether a tick
\* would have created an object beyond MaxWaterUUID
Volume_doWorldTick(w) ==
    Volume_tickAll([w |-> w, bounded |-> FALSE],
                   getAllContainedObjectsRecursive(w, RootObject))

\* random.Random(0): the shuffled possible_water_containers and the volumes
\* drawn for them
water_containers ==
    << [name |-> "mug", volume |-> 110], [name |-> "glass", volume |-> 167],
       [name |-> "cup", volume |-> 95], [name |-> "bowl", volume |-> 121],
       [name |-> "bottle", volume |-> 137] >>

\* water_containers[target_id]
target_water_container == water_containers[2]

RECURSIVE addWaterContainers(_, _, _)
addWaterContainers(w, world, i) ==
    IF i > Len(water_containers) THEN w
    ELSE addWaterContainers(
           addObject(NewObject(w, "WaterContainer", water_containers[i].name,
                               WaterContainerProperties(water_containers[i].volume)),
                     world, w.UUID),
           world, i + 1)

Volume_initializeWorld ==
    LET agent  == 0
        world  == 1
        wAgent == NewObject(EmptyWorld, "Agent", "agent", ContainerProperties)
        wWorld == addObject(NewObject(wAgent, "World", "room", ContainerProperties),
                            world, agent)
        wSink  == addObject(NewObject(wWorld, "Sink", "sink", SinkProperties),
                            world, wWorld.UUID)
        wCups  == addWaterContainers(wSink, world, 1)
    IN  addObject(NewObject(wCups, "GraduatedCylinder", "graduated cylinder",
                            WaterContainerProperties(200)),
                  world, wCups.UUID)

\* The list that generatePossibleActions of volume-container.py leaves under
\* one key
Volume_actionsUnder(w, allObjects, c) ==
    LET objs1 == objectsNamed(allObjects, c.r1)
        objs2 == objectsNamed(allObjects, c.r2)
        One(Keep(_)) ==
            Concat([a \in 1 .. Len(objs1) |->
                      IF Keep(objs1[a]) THEN << Args(c.verb, objs1[a], None) >> ELSE <<>>])
        Two(Keep(_, _)) ==
            Concat([a \in 1 .. Len(objs1) |->
              Concat([b \in 1 .. Len(objs2) |->
                      IF Keep(objs1[a], objs2[b])
                      THEN << Args(c.verb, objs1[a], objs2[b]) >> ELSE <<>>])])
        Each(o) == TRUE
        From(o) == getReferents(w, w.parentContainer[o])[1] = c.r2
        Into(o1, o2) == o1 # o2 /\ containerPrefixOf(w, o2) = c.prep
        Other(o1, o2) == o1 # o2
        volumes == {i \in 50 .. 199 : ToString(i) \o " mL" = c.r1}
    IN  CASE c \in {Cmd("look around", "", "", ""), Cmd("look", "", "", "")}
               -> << Args("look around", None, None) >>
          [] c = Cmd("inventory", "", "", "") -> << Args("inventory", None, None) >>
          [] c.verb \in {"take", "turn on", "turn off"}
             /\ c.r1 # "" /\ c.prep = "" /\ c.r2 = ""                -> One(Each)
          [] c.verb = "take" /\ c.r1 # "" /\ c.prep = "from"          -> One(From)
          [] c.verb = "answer" /\ volumes # {} /\ c.prep = "" /\ c.r2 = ""
               -> << Args("answer", CHOOSE i \in volumes : TRUE, None) >>
          [] c.verb = "put" /\ c.r1 # ""                              -> Two(Into)
          [] c.verb = "pour" /\ c.r1 # "" /\ c.prep = "into"          -> Two(Other)
          [] OTHER -> <<>>

Sink == "sink (ID: 2)"
Mug == "mug (ID: 3)"
Cylinder == "graduated cylinder (ID: 8)"
WaterInMug == "water in mug (ID: 3)"
WaterInCylinder == "water in graduated cylinder (ID: 8)"

\* The command strings a step of the volume-container session is called with
Volume_Commands ==
    { Cmd("look", "", "", ""),
      Cmd("take", Mug, "", ""), Cmd("take", Cylinder, "", ""),
      Cmd("take", WaterInCylinder, "from", Cylinder),
      Cmd("put", Mug, "in", Sink), Cmd("put", Cylinder, "in", Sink),
      Cmd("turn on", Sink, "", ""), Cmd("turn off", Sink, "", ""),
      Cmd("pour", WaterInMug, "into", Cylinder), Cmd("pour", WaterInCylinder, "into", Mug),
      Cmd("pour", WaterInCylinder, "into", Sink),
      Cmd("answer", "167 mL", "", "") }

\* generatePossibleActions with the list under every key reversed
Volume_generatePossibleActions_LastFirst(w) ==
    LET allObjects == makeNameToObjectDict(w)
        actions == [c \in Volume_Commands |-> Volume_actionsUnder(w, allObjects, c)]
        Reversed(L) == [i \in 1 .. Len(L) |-> L[Len(L) + 1 - i]]
    IN  [c \in {k \in Volume_Commands : actions[k] # <<>>} |-> Reversed(actions[c])]

\* generatePossibleActions of volume-container.py, keeping the entries under
\* the keys in Volume_Commands
Volume_generatePossibleActions(w) ==
    LET allObjects == makeNameToObjectDict(w)
        actions == [c \in Volume_Commands |-> Volume_actionsUnder(w, allObjects, c)]
    IN  [c \in {k \in Volume_Commands : actions[k] # <<>>} |-> actions[c]]

Volume_makeDescriptionStr(w) == "You are in a room."

Volume_actionTake(w, obj) ==
    IF w.parentContainer[obj] = None
    THEN Result(w, "Something has gone wrong -- that object is dangling in the void.  You can't take that.", FALSE)
    ELSE IF w.classOf[obj] = "Agent"
    THEN Result(w, "You cannot take yourself.", FALSE)
    ELSE LET taken == Volume_takeObjectFromContainer(w, w.parentContainer[obj], obj)
         IN  IF taken.success = FALSE
             THEN taken
             ELSE Result(addObject(taken.w, Agent, obj),
                         taken.obs \o " You put the " \o getReferents(w, obj)[1]
                           \o " in your inventory.", TRUE)

Volume_actionPut(w, objToMove, newContainer) ==
    IF getProperty(w, newContainer, "isContainer", FALSE)
    THEN Result(w, "You can't put things in the "
                   \o getReferents(w, newContainer)[1] \o ".", FALSE)
    ELSE IF hasProperty(w, newContainer, "isWaterContainer")
            /\ w.properties[newContainer].isWaterContainer
    THEN Result(w, "You can't put things in the "
                   \o getReferents(w, newContainer)[1] \o ".", FALSE)
    ELSE IF w.parentContainer[objToMove] # Agent
    THEN Result(w, "You don't currently have the "
                   \o getReferents(w, objToMove)[1] \o " in your inventory.", FALSE)
    ELSE LET originalContainer == w.parentContainer[objToMove]
             taken  == Volume_takeObjectFromContainer(w, originalContainer, objToMove)
             placed == Container_placeObjectInContainer(taken.w, newContainer, objToMove)
         IN  IF taken.success = FALSE
             THEN taken
             ELSE IF placed.raises
             THEN placed
             ELSE IF placed.success = FALSE
             THEN Result(addObject(placed.w, originalContainer, objToMove),
                         placed.obs, FALSE)
             ELSE Result(placed.w, taken.obs \o "\n" \o placed.obs, TRUE)

actionPour(w, water, target) ==
    IF w.classOf[water] # "Water"
    THEN Result(w, "Cannot pour " \o w.name[water] \o ".", FALSE)
    ELSE IF ~ getProperty(w, target, "isWaterContainer", TRUE)
    THEN Result(removeSelfFromContainer(w, water),
                getReferents(w, water)[1] \o " is poured.", TRUE)
    ELSE IF w.properties[water].volume > w.properties[target].volume
    THEN IF w.UUID >= MaxWaterUUID
         THEN [Result(w, "", FALSE) EXCEPT !.bounded = TRUE]
         ELSE LET less == [w EXCEPT !.properties[water].volume =
                                       @ - w.properties[target].volume]
                  poured == addObject(NewObject(less, "Water", "water",
                                                WaterProperties(w.properties[target].volume)),
                                      target, w.UUID)
              IN  Result(poured, "You pour " \o getReferents(poured, water)[1]
                                 \o " into " \o w.name[target], TRUE)
    ELSE LET poured == addObject(w, target, water)
         IN  Result(poured, "You pour " \o getReferents(poured, water)[1]
                            \o " into " \o w.name[target], TRUE)

Volume_actionTurnOn(w, obj) ==
    IF getProperty(w, obj, "isActivatable", TRUE)
    THEN Device_turnOn(w, obj)
    ELSE Result(w, "You can't turn on that.", FALSE)

Volume_actionTurnOff(w, obj) ==
    IF getProperty(w, obj, "isActivatable", TRUE)
    THEN turnOff(w, obj)
    ELSE Result(w, "You can't turn off that.", FALSE)

\* step_action of volume-container.py; actionAnswer writes answer_volume, a
\* field of the game
Volume_step_action(w, ses, possible, actionStr) ==
    IF actionStr \notin DOMAIN possible
    THEN [r |-> Result(w, NotUnderstood, FALSE), ses |-> ses]
    ELSE LET action == possible[actionStr][1]
             verb   == action.verb
         IN  CASE verb = "look around"
                    -> [r |-> Result(w, Volume_makeDescriptionStr(w), TRUE), ses |-> ses]
               [] verb = "inventory" -> [r |-> actionInventory(w), ses |-> ses]
               [] verb = "take"      -> [r |-> Volume_actionTake(w, action.obj1), ses |-> ses]
               [] verb = "turn on"   -> [r |-> Volume_actionTurnOn(w, action.obj1), ses |-> ses]
               [] verb = "turn off"  -> [r |-> Volume_actionTurnOff(w, action.obj1), ses |-> ses]
               [] verb = "put"
                    -> [r |-> Volume_actionPut(w, action.obj1, action.obj2), ses |-> ses]
               [] verb = "pour"
                    -> [r |-> actionPour(w, action.obj1, action.obj2), ses |-> ses]
               [] verb = "answer"
                    -> [r |-> Result(w, "You believe the volume of the "
                                        \o ses.target_water_container \o " is "
                                        \o ToString(action.obj1) \o " mL.", TRUE),
                        ses |-> [ses EXCEPT !.answer_volume = action.obj1]]
               [] OTHER -> [r |-> Result(w, "ERROR: Unknown action.", FALSE), ses |-> ses]

\* calculateScore of volume-container.py
Volume_calculateScore(ses, over, won) ==
    IF ses.answer_volume # None
    THEN IF ses.target_water_container_volume = ses.answer_volume
         THEN [score |-> 1, gameOver |-> TRUE, gameWon |-> TRUE]
         ELSE [score |-> 0, gameOver |-> TRUE, gameWon |-> FALSE]
    ELSE [score |-> 0, gameOver |-> over, gameWon |-> won]

Volume_step(w, possible, ses, sc, over, won, actionStr) ==
    LET acted  == Volume_step_action(w, ses, possible, actionStr)
        ticked == Volume_doWorldTick(acted.r.w)
        scored == Volume_calculateScore(acted.ses, over, won)
    IN  [w |-> ticked.w, obs |-> acted.r.obs, ses |-> acted.ses,
         score |-> scored.score, reward |-> scored.score - sc,
         gameOver |-> scored.gameOver, gameWon |-> scored.gameWon,
         raises |-> acted.r.raises, bounded |-> acted.r.bounded \/ ticked.bounded]

\* main: TextGame(randomSeed), then generatePossibleActions()
Volume_Init ==
    LET w   == Volume_initializeWorld
        ses == [answer_volume |-> None,
                target_water_container |-> target_water_container.name,
                target_water_container_volume |-> target_water_container.volume]
        sc  == Volume_calculateScore(ses, FALSE, FALSE)
    IN  /\ UUID = w.UUID
        /\ classOf = w.classOf
        /\ name = w.name
        /\ parentContainer = w.parentContainer
        /\ contains = w.contains
        /\ properties = w.properties
        /\ session = ses
        /\ score = sc.score
        /\ gameOver = sc.gameOver
        /\ gameWon = sc.gameWon
        /\ observationStr = Volume_makeDescriptionStr(w)
        /\ possibleActions = Volume_generatePossibleActions(w)
        /\ reward = 0

\* One turn of the main loop of volume-container.py
Volume_Turn(actionStr) ==
    \E r \in {Volume_step(World, possibleActions, session, score, gameOver, gameWon,
                          actionStr)} :
        /\ ~ r.bounded
        /\ ~ r.raises
        /\ SetWorld(r.w)
        /\ session' = r.ses
        /\ observationStr' = r.obs
        /\ score' = r.score
        /\ gameOver' = r.gameOver
        /\ gameWon' = r.gameWon
        /\ reward' = r.reward
        /\ possibleActions' = Volume_generatePossibleActions(r.w)

Volume_Next == \E actionStr \in Volume_Commands : Volume_Turn(actionStr)

SpecVolume == Volume_Init /\ [][Volume_Next]_vars

-----------------------------------------------------------------------------
(* The shape of the containment graph *)

\* The objects that have a parent
Placed == {o \in 0 .. (UUID - 1) : parentContainer[o] # None}

\* The objects under the root
UnderRoot == Range(getAllContainedObjectsRecursive(World, RootObject))

TakeOrPutTurn == \E c \in Commands : c.verb \in {"take", "put"} /\ Turn(c)

\* C4: after any take or put, every object that has a parent is reached from
\* the world object, so that none is its own ancestor.
C4_TreeRootedAtWorld == [][TakeOrPutTurn => (Placed \subseteq UnderRoot)']_vars

-----------------------------------------------------------------------------
(* Closed containers, refusals and the rollback of put *)

IsObject(w, o) == o \in 0 .. (w.UUID - 1)

\* The containers whose isOpen is false
Closed(w) == {o \in Ids : /\ IsObject(w, o)
                          /\ getProperty(w, o, "isContainer", TRUE)
                          /\ getProperty(w, o, "isOpen", FALSE)}

\* C7, as the specification states it: while a container's isOpen is false, no
\* step adds an object to its list of children or removes one from it.
C7_NoStepChangesClosedContainer ==
    [][\A o \in Closed(World) \cap Closed(World') : contains'[o] = contains[o]]_vars

\* The commands of the catalog that take or put
TakeOrPut == {c \in DOMAIN possibleActions : c.verb \in {"take", "put"}}

\* C7, amended: while a container's isOpen is false, the handler of a take or
\* of a put neither adds an object to its list of children nor removes one.
C7_TakePutLeaveClosedContainer ==
    \A c \in TakeOrPut : \A o \in Closed(World) :
        step_action(World, possibleActions, c).w.contains[o] = contains[o]

ClosedSoNotPlaced(container) ==
    "The " \o container \o " is closed, so things can't be placed there."

\* A put into the closed dishwasher has been refused while it held a dish
C7_Witness ==
    /\ observationStr = ClosedSoNotPlaced(Dishwasher)
    /\ 2 \in Closed(World)
    /\ \E i \in 1 .. Len(contains[2]) : classOf[contains[2][i]] = "Dish"

\* C8: a handler that refuses a command has changed no object's properties,
\* parent or list of children, the order of the list included, when it returns.
C8_RefusalChangesNothing ==
    \A c \in DOMAIN possibleActions :
        LET r == step_action(World, possibleActions, c)
        IN  ~ r.success => r.w = World

\* The number of times obj is in the list of children of self
Occurrences(w, self, obj) ==
    Cardinality({i \in 1 .. Len(w.contains[self]) : w.contains[self][i] = obj})

\* obj is a child of parent, once, and of no other object
ChildOfOnly(w, obj, parent) ==
    /\ w.parentContainer[obj] = parent
    /\ Occurrences(w, parent, obj) = 1
    /\ \A o \in Ids : IsObject(w, o) /\ o # parent => Occurrences(w, o, obj) = 0

\* The put of obj into newContainer detaches obj and is then refused
RefusedByDestination(w, obj, newContainer) ==
    /\ ~ getProperty(w, newContainer, "isContainer", FALSE)
    /\ w.parentContainer[obj] = Agent
    /\ LET taken == takeObjectFromContainer(w, Agent, obj)
       IN  /\ taken.success
           /\ ~ placeObjectInContainer(taken.w, newContainer, obj).success

\* C9: when a put has detached the object and the destination refuses it, the
\* object is a child of its original parent, and of no other object, when the
\* handler returns.
C9_PutRollback ==
    \A c \in DOMAIN possibleActions :
        LET a == possibleActions[c][1]
        IN  (a.verb = "put" /\ RefusedByDestination(World, a.obj1, a.obj2))
            => ChildOfOnly(actionPut(World, a.obj1, a.obj2).w, a.obj1,
                           parentContainer[a.obj1])

\* A put has been refused by the closed dishwasher and the dish is in the
\* inventory, from where the put can be refused again
C9_Witness ==
    /\ observationStr = ClosedSoNotPlaced(Dishwasher)
    /\ \E c \in DOMAIN possibleActions :
         /\ possibleActions[c][1].verb = "put"
         /\ RefusedByDestination(World, possibleActions[c][1].obj1,
                                 possibleActions[c][1].obj2)

-----------------------------------------------------------------------------
(* The catalog a step matches against *)

\* C10: each call of step matches its string against the catalog that
\* generatePossibleActions would build from the objects as they are when step
\* is called.
C10_StepUsesFreshCatalog ==
    [][(\E c \in Commands : Step(c))
         => possibleActions = generatePossibleActions(World)]_vars

-----------------------------------------------------------------------------
(* Parents and children; the score *)

\* C5: in every reachable state each object that has a parent is once in the
\* list of children of that parent and in the list of no other object.
C5_ChildOfItsParentOnly ==
    \A o \in Ids : (IsObject(World, o) /\ parentContainer[o] # None)
                     => ChildOfOnly(World, o, parentContainer[o])

\* C6: after every step (score, gameOver, gameWon) is a function of the objects
\* alone: a step that leaves the objects as they were leaves the three as they
\* were.
C6_ScoreFunctionOfTree ==
    [][UNCHANGED tree => UNCHANGED <<score, gameOver, gameWon>>]_vars

-----------------------------------------------------------------------------
(* The tick phase *)

\* C11: every call of step runs the world tick exactly once: the world a step
\* leaves is the world its handler left, ticked one time.
C11_OneTickPerStep ==
    \A c \in Commands :
        step(World, possibleActions, session, score, gameOver, gameWon, c).w
            = doWorldTick(step_action(World, possibleActions, c).w)

\* Two steps after it was turned on, the dishwasher is in the second stage of
\* its cycle
C11_Witness ==
    /\ properties[2].isOn = TRUE
    /\ properties[2].cycleStage = 2

\* The objects in the order in which makeNameToObjectDict met them: the first
\* object under each key of the dictionary, without repetitions
catalogOrder(w) ==
    LET d == makeNameToObjectDict(w)
    IN  Concat([i \in 1 .. Len(d) |->
                  IF \E j \in 1 .. (i - 1) : d[j].vals[1] = d[i].vals[1]
                  THEN <<>> ELSE << d[i].vals[1] >>])

\* obj is in the child list of anc, or of something below anc, at most n
\* levels down
RECURSIVE Below(_, _, _, _)
Below(w, anc, obj, n) ==
    /\ n > 0
    /\ \E p \in Ids :
         /\ obj \in Range(w.contains[p])
         /\ (p = anc \/ Below(w, anc, p, n - 1))

Descendants(w) == {o \in Ids : Below(w, RootObject, o, MaxUUID)}

Count(L, o) == Cardinality({i \in 1 .. Len(L) : L[i] = o})

Position(L, o) == CHOOSE i \in 1 .. Len(L) : L[i] = o

\* L lists the objects below the root once each and in pre-order: an object
\* comes after its parent, before its later siblings, and what is below it
\* follows it directly
IsPreOrder(w, L) ==
    /\ Range(L) = Descendants(w)
    /\ \A o \in Descendants(w) : Count(L, o) = 1
    /\ \A i \in 1 .. Len(L) :
         LET p == w.parentContainer[L[i]]
         IN  p = RootObject \/ (Count(L, p) = 1 /\ Position(L, p) < i)
    /\ \A i, j \in 1 .. Len(L) :
         (i < j /\ w.parentContainer[L[i]] = w.parentContainer[L[j]])
            => LET siblings == w.contains[w.parentContainer[L[i]]]
               IN  Position(siblings, L[i]) < Position(siblings, L[j])
    /\ \A i, j, k \in 1 .. Len(L) :
         (i < j /\ j < k /\ Below(w, L[i], L[k], MaxUUID))
            => Below(w, L[i], L[j], MaxUUID)

-----------------------------------------------------------------------------
(* The reward *)

\* C13: the reward a call of step returns is the score after the call minus
\* the score before it.
C13_RewardIsScoreDifference == [][reward' = score' - score]_vars

\* A step has raised a score that was not 0 before it
C13_Witness == reward > 0 /\ score > reward

-----------------------------------------------------------------------------
(* The cycle of the dishwasher: the session of dishwasher.py driven with the *)
(* commands that load, start, stop and open the dishwasher                  *)

TurnOnDishwasher == Cmd("turn on", Dishwasher, "", "")
TurnOffDishwasher == Cmd("turn off", Dishwasher, "", "")
OpenDishwasher == Cmd("open", Dishwasher, "", "")

\* The food and the clean dish of the kitchen
BellPepper == "bell pepper (ID: 8)"
Bottle == "bottle (ID: 7)"

Cycle_Commands ==
    { Cmd("look", "", "", ""),
      OpenDishwasher, Cmd("close", Dishwasher, "", ""),
      TurnOnDishwasher, TurnOffDishwasher,
      Cmd("take", Pot, "", ""), Cmd("take", Bowl, "", ""), Cmd("take", Dishwasher, "", ""),
      Cmd("put", Pot, "in", Dishwasher), Cmd("put", Bowl, "in", Dishwasher),
      Cmd("put", Pot, "in", Kitchen),
      Cmd("take", BellPepper, "", ""), Cmd("eat", BellPepper, "with", Bottle),
      Cmd("use", SoapBottle, "on", Dishwasher) }

\* generatePossibleActions reading the last observation besides the objects:
\* after an observation that is not the room description it leaves "look" out
Cycle_generatePossibleActions_ByObservation(w) ==
    LET allObjects == makeNameToObjectDict(w)
        actions == [c \in Cycle_Commands |-> actionsUnder(w, allObjects, c)]
        keys == {k \in Cycle_Commands : actions[k] # <<>>}
    IN  IF observationStr = World_makeDescriptionStr(w)
        THEN [c \in keys |-> actions[c]]
        ELSE [c \in keys \ {Cmd("look", "", "", "")} |-> actions[c]]

\* generatePossibleActions, keeping the entries under the keys in Cycle_Commands
Cycle_generatePossibleActions(w) ==
    LET allObjects == makeNameToObjectDict(w)
        actions == [c \in Cycle_Commands |-> actionsUnder(w, allObjects, c)]
    IN  [c \in {k \in Cycle_Commands : actions[k] # <<>>} |-> actions[c]]

\* main: TextGame(randomSeed), then generatePossibleActions()
Cycle_Init ==
    LET w   == initializeWorld
        ses == [numStartingDirtyDishes |-> Len(dirtyDishes)]
        sc  == calculateScore(w, ses, FALSE, FALSE)
    IN  /\ UUID = w.UUID
        /\ classOf = w.classOf
        /\ name = w.name
        /\ parentContainer = w.parentContainer
        /\ contains = w.contains
        /\ properties = w.properties
        /\ session = ses
        /\ score = sc.score
        /\ gameOver = sc.gameOver
        /\ gameWon = sc.gameWon
        /\ observationStr = World_makeDescriptionStr(w)
        /\ possibleActions = Cycle_generatePossibleActions(w)
        /\ reward = 0

\* One turn of the main loop
Cycle_Turn(actionStr) ==
    \E r \in {step(World, possibleActions, session, score, gameOver, gameWon, actionStr)} :
        /\ ~ r.bounded
        /\ ~ r.raises
        /\ SetWorld(r.w)
        /\ observationStr' = r.obs
        /\ score' = r.score
        /\ gameOver' = r.gameOver
        /\ gameWon' = r.gameWon
        /\ reward' = r.reward
        /\ possibleActions' = Cycle_generatePossibleActions(r.w)
        /\ UNCHANGED session

Cycle_Next == \E actionStr \in Cycle_Commands : Cycle_Turn(actionStr)

SpecCycle == Cycle_Init /\ [][Cycle_Next]_vars

\* Two sessions of dishwasher.py in one process.  The variables are the first
\* session and UUID, the counter of the module, which both sessions read and
\* write; the objects of the second session are reached from no object of the
\* first.

\* TextGame(randomSeed) once more: the constructor sets the counter of the
\* module to 0 and creates the objects of the second session from it
ConstructSecondGame ==
    /\ UUID' = initializeWorld.UUID
    /\ UNCHANGED <<classOf, name, parentContainer, contains, properties, score,
                   gameOver, gameWon, observationStr, possibleActions, reward, session>>

\* One turn of the first session.  A step that would create an object under
\* an id that an object of the session holds is not taken: the model holds
\* one object under an id.
Shared_Turn(actionStr) ==
    \E r \in {step(World, possibleActions, session, score, gameOver, gameWon, actionStr)} :
        /\ ~ r.bounded
        /\ ~ r.raises
        /\ ~ (r.w.UUID > UUID /\ classOf[UUID] # "None")
        /\ SetWorld(r.w)
        /\ observationStr' = r.obs
        /\ score' = r.score
        /\ gameOver' = r.gameOver
        /\ gameWon' = r.gameWon
        /\ reward' = r.reward
        /\ possibleActions' = Cycle_generatePossibleActions(r.w)
        /\ UNCHANGED session

Shared_Next ==
    \/ \E actionStr \in Cycle_Commands : Shared_Turn(actionStr)
    \/ ConstructSecondGame

SpecShared == Cycle_Init /\ [][Shared_Next]_vars

\* The session as one value, and the session one turn of the main loop later
Session ==
    [w |-> World, possible |-> possibleActions, score |-> score,
     gameOver |-> gameOver, gameWon |-> gameWon, bounded |-> FALSE]

Cycle_after(s, actionStr) ==
    LET r == step(s.w, s.possible, session, s.score, s.gameOver, s.gameWon, actionStr)
    IN  [w |-> r.w, possible |-> Cycle_generatePossibleActions(r.w), score |-> r.score,
         gameOver |-> r.gameOver, gameWon |-> r.gameWon,
         bounded |-> s.bounded \/ r.bounded]

TheDishWasher == CHOOSE o \in Ids : classOf[o] = "DishWasher"

Inside(w, container, cls) ==
    {o \in Range(getAllContainedObjectsRecursive(w, container)) : w.classOf[o] = cls}

DirtyInside(w, container) ==
    {o \in Inside(w, container, "Dish") : w.properties[o].isDirty}

\* The dishwasher is closed and holds soap and dirty dishes, and the command
\* that turns it on is accepted
LoadedAndStarted ==
    /\ properties[TheDishWasher].isOpen = FALSE
    /\ Inside(World, TheDishWasher, "Soap") # {}
    /\ DirtyInside(World, TheDishWasher) # {}
    /\ step_action(World, possibleActions, TurnOnDishwasher).success

\* The handler of the command leaves the door closed
KeepsClosed(s, c) ==
    step_action(s.w, s.possible, c).w.properties[TheDishWasher].isOpen = FALSE

\* The handler of the command leaves the dishwasher on
KeepsOn(s, c) ==
    step_action(s.w, s.possible, c).w.properties[TheDishWasher].isOn = TRUE

Washed(w) ==
    /\ w.properties[TheDishWasher].finishedCycle = TRUE
    /\ DirtyInside(w, TheDishWasher) = {}

\* C14: the closed dishwasher, at stage 0 of its cycle, holding soap and dirty
\* dishes, is turned on; after the tick of that step and the ticks of two more
\* steps that leave it closed and on, no dish inside is dirty and
\* finishedCycle is true.
C14_ThreeTicksFromStageZero ==
    (LoadedAndStarted /\ properties[TheDishWasher].cycleStage = 0) =>
        LET s1 == Cycle_after(Session, TurnOnDishwasher)
        IN  \A c2 \in Cycle_Commands :
              (KeepsClosed(s1, c2) /\ KeepsOn(s1, c2)) =>
                LET s2 == Cycle_after(s1, c2)
                IN  \A c3 \in Cycle_Commands :
                      (KeepsClosed(s2, c3) /\ KeepsOn(s2, c3)) =>
                        LET s3 == Cycle_after(s2, c3)
                        IN  s3.bounded \/ Washed(s3.w)

\* The cycle has finished on clean dishes behind the closed door
C14_Witness ==
    /\ properties[TheDishWasher].isOpen = FALSE
    /\ properties[TheDishWasher].finishedCycle = TRUE
    /\ Inside(World, TheDishWasher, "Dish") # {}
    /\ DirtyInside(World, TheDishWasher) = {}

\* C14 as stated: the closed dishwasher holding soap and dirty dishes is
\* turned on, at whatever stage of its cycle; after the tick of that step and
\* the ticks of two more steps that leave it closed and on, no dish inside is
\* dirty and finishedCycle is true.
C14_ThreeTicksDoorClosed ==
    LoadedAndStarted =>
        LET s1 == Cycle_after(Session, TurnOnDishwasher)
        IN  \A c2 \in Cycle_Commands :
              (KeepsClosed(s1, c2) /\ (KeepsOn(s1, c2) \/ ~ s1.w.properties[TheDishWasher].isOn)) =>
                LET s2 == Cycle_after(s1, c2)
                IN  \A c3 \in Cycle_Commands :
                      (KeepsClosed(s2, c3) /\ (KeepsOn(s2, c3) \/ ~ s2.w.properties[TheDishWasher].isOn)) =>
                        LET s3 == Cycle_after(s2, c3)
                        IN  s3.bounded \/ Washed(s3.w)

\* The dishwasher is on and closed, in the first or the second stage of its
\* cycle, and the command that opens it is accepted
RunningAndOpened ==
    /\ properties[TheDishWasher].isOn = TRUE
    /\ properties[TheDishWasher].isOpen = FALSE
    /\ properties[TheDishWasher].cycleStage \in {1, 2}
    /\ step_action(World, possibleActions, OpenDishwasher).success

\* C15: when the dishwasher is opened while its cycle is in progress, the
\* step that opens it leaves cycleStage at 0 and isOn false.
C15_OpeningResetsCycle ==
    RunningAndOpened =>
        LET w == Cycle_after(Session, OpenDishwasher).w
        IN  /\ w.properties[TheDishWasher].isOpen = TRUE
            /\ w.properties[TheDishWasher].cycleStage = 0
            /\ w.properties[TheDishWasher].isOn = FALSE

\* The dishwasher can be opened in the second stage of its cycle, after the
\* dishes in it were washed
C15_Witness ==
    /\ RunningAndOpened
    /\ properties[TheDishWasher].cycleStage = 2
    /\ Inside(World, TheDishWasher, "Dish") # {}

-----------------------------------------------------------------------------
(* The ids *)

\* The objects created so far
Created == {o \in Ids : classOf[o] # "None"}

\* The names the constructors of dishwasher.py give
ObjectNames ==
    {"agent", "kitchen", "dishwasher", "bottle of dish soap", "dish soap"}
      \cup {dirtyDishes[i].dishType : i \in 1 .. Len(dirtyDishes)}
      \cup Range(cleanDishes) \cup Range(foods)

\* The id in the name of the object is the id under which the session holds it
NameCarriesId(o) ==
    \E n \in ObjectNames : name[o] = n \o " (ID: " \o ToString(o) \o ")"

\* C16: the ids of a session are unique and stable: every object has an id
\* below the counter, so that the next object gets an id no object has, and a
\* step changes neither the id nor the name of an object, whether or not it
\* creates objects.
C16_IdsUniqueAndStable ==
    /\ [](\A o \in Created : o < UUID /\ NameCarriesId(o))
    /\ [][/\ UUID' >= UUID
           /\ (\A o \in Created : classOf'[o] = classOf[o] /\ name'[o] = name[o])
           /\ (\A n \in Created' \ Created : n >= UUID)]_vars

\* A step has created an object: the soap squirted into the dishwasher
C16_Witness ==
    \E o \in Created : classOf[o] = "Soap" /\ o = UUID - 1 /\ NameCarriesId(o)

-----------------------------------------------------------------------------
(* The container capability *)

\* C17: at every step boundary, every object whose child list is not empty has
\* isContainer = true.
C17_OnlyContainersHoldChildren ==
    \A o \in Created : contains[o] # <<>> => properties[o].isContainer = TRUE

\* The objects whose isMoveable flag is false
Immovable == {o \in Created : properties[o].isMoveable = FALSE}

\* C18: an object whose isMoveable flag is false is never reparented: no step
\* changes its parent or its flag, so its parent is the one of the initial state
\* after every sequence of steps.
C18_ImmovableNeverReparented ==
    [][\A o \in Immovable : /\ parentContainer'[o] = parentContainer[o]
                             /\ properties'[o].isMoveable = FALSE]_vars

\* A take of the dishwasher has been refused
C18_Witness ==
    /\ observationStr = "The " \o Dishwasher \o " is not moveable."
    /\ TheDishWasher \in Immovable
    /\ parentContainer[TheDishWasher] = RootObject

-----------------------------------------------------------------------------
(* Referents shared by several objects *)

\* The objects below the root that the referent names
Named(w, referent) ==
    {o \in Descendants(w) : referent \in Range(getReferents(w, o))}

\* The keys of the catalog whose first referent names two objects or more
Ambiguous == {c \in DOMAIN possibleActions : Cardinality(Named(World, c.r1)) >= 2}

\* o is the first in the pre-order L of the objects that the referent names
FirstNamed(w, L, referent, o) ==
    /\ o \in Named(w, referent)
    /\ \A other \in Named(w, referent) : Position(L, o) <= Position(L, other)

\* The water of the container that a pour into the sink has removed
PouredAway(p) ==
    /\ observationStr' = "water in " \o name[p] \o " is poured."
    /\ Len(contains[p]) >= 2
    /\ \A i \in 1 .. Len(contains[p]) : classOf[contains[p][i]] = "Water"

-----------------------------------------------------------------------------
(* Take and put back *)

\* generatePossibleActions on the tree w, keeping the entry under the key c
catalogUnder(w, c) ==
    LET actions == actionsUnder(w, makeNameToObjectDict(w), c)
    IN  [k \in {x \in {c} : actions # <<>>} |-> actions]

\* The command that puts e into p, in the words the catalog of w uses
putInto(w, e, p) ==
    Cmd("put", getReferents(w, e)[1], containerPrefixOf(w, p), getReferents(w, p)[1])

\* Where the step "take e" succeeds, the following step that puts e into the
\* parent it was taken from succeeds and leaves e in the child list of that
\* parent
RoundTrip(e) ==
    LET p      == parentContainer[e]
        take   == Cmd("take", name[e], "", "")
        taken  == step_action(World, catalogUnder(World, take), take)
        w1     == doWorldTick(taken.w)
        put    == putInto(w1, e, p)
        placed == step_action(w1, catalogUnder(w1, put), put)
        w2     == doWorldTick(placed.w)
    IN  taken.success => (placed.success /\ e \in Range(w2.contains[p]))

\* C20 for the objects that are not children of the root: the round trip of
\* take and put holds for them.
C20_RoundTripBelowRoot ==
    \A e \in Descendants(World) : parentContainer[e] # RootObject => RoundTrip(e)

\* The pot was taken from the kitchen, and the step that puts it back into the
\* kitchen has not been understood: the pot is still in the inventory
C20_Witness ==
    /\ observationStr = NotUnderstood
    /\ parentContainer[4] = Agent
    /\ 4 \notin Range(contains[RootObject])

\* C20: for every object on which a take succeeds, a following put of the
\* object into the parent it was taken from succeeds and leaves the object in
\* the child list of that parent.
C20_RoundTrip == \A e \in Descendants(World) : RoundTrip(e)

-----------------------------------------------------------------------------
(* The entries of the catalog *)

\* The entries that generatePossibleActions adds for the verbs of two objects
TwoObjectEntries(w) == SelectSeq(addedActions(w), LAMBDA e : e.args.obj2 # None)

\* C21 for the verbs put and use: none of their entries binds one object to
\* both positions.
C21_PutAndUseExcludeSelfPairing ==
    \A e \in Range(TwoObjectEntries(World)) :
        e.args.verb \in {"put", "use"} => e.args.obj1 # e.args.obj2

\* C21: no entry of the catalog for a verb of two objects binds the same
\* object to both of its positions.
C21_NoSelfPairing ==
    \A e \in Range(TwoObjectEntries(World)) : e.args.obj1 # e.args.obj2

-----------------------------------------------------------------------------
(* Snapshots and their partial diff: get_game_states.py and evaluate.py *)

\* get_state: the records of the root and of the objects below it
get_state(w) ==
    LET allObjects == <<RootObject>> \o getAllContainedObjectsRecursive(w, RootObject)
    IN  [objects |->
           [i \in 1 .. Len(allObjects) |->
              LET obj == allObjects[i]
              IN  [name |-> w.name[obj], uuid |-> obj, type |-> w.classOf[obj],
                   properties |-> w.properties[obj],
                   contains |-> [j \in 1 .. Len(w.contains[obj]) |->
                                   w.name[w.contains[obj][j]]]]]]

make_game_state(raw_json) == [game_state |-> raw_json.objects]

\* Python's None where a record is expected
NoneRecord == [none |-> TRUE]

\* make_state_for_comprison: the dictionary of the records by uuid, in the
\* order of insertion; a snapshot of get_state holds no score record
make_state_for_comprison(states) == [byUuid |-> states]

inDict(d, uuid) == \E i \in 1 .. Len(d.byUuid) : d.byUuid[i].uuid = uuid

atUuid(d, uuid) == d.byUuid[CHOOSE i \in 1 .. Len(d.byUuid) : d.byUuid[i].uuid = uuid]

\* The loop of get_state_diff over the keys of property_1; no property of the
\* modelled games is a list or a dictionary
propertiesDiffer(property_1, property_2) ==
    \E key \in DOMAIN property_1 :
        key \notin DOMAIN property_2 \/ property_1[key] # property_2[key]

\* sorted(contains_1) != sorted(contains_2)
sortedDiffer(contains_1, contains_2) ==
    \E n \in Range(contains_1) \cup Range(contains_2) :
        Count(contains_1, n) # Count(contains_2, n)

\* get_state_diff: the dictionary diffs as the list of its items
get_state_diff(state_1_json, state_2_json) ==
    LET state_1 == make_state_for_comprison(state_1_json.game_state)
        state_2 == make_state_for_comprison(state_2_json.game_state)
        Compared(r) ==
            IF ~ inDict(state_2, r.uuid)
            THEN << [uuid |-> r.uuid, first |-> state_1, second |-> NoneRecord] >>
            ELSE IF \/ propertiesDiffer(r.properties, atUuid(state_2, r.uuid).properties)
                    \/ sortedDiffer(r.contains, atUuid(state_2, r.uuid).contains)
            THEN << [uuid |-> r.uuid, first |-> r, second |-> atUuid(state_2, r.uuid)] >>
            ELSE <<>>
        \* diffs[uuid] = (None, state_2): the dictionary, not state_2[uuid]
        Created_(r) ==
            IF ~ inDict(state_1, r.uuid)
            THEN << [uuid |-> r.uuid, first |-> NoneRecord, second |-> state_2] >>
            ELSE <<>>
    IN  Concat([i \in 1 .. Len(state_1.byUuid) |-> Compared(state_1.byUuid[i])])
        \o Concat([i \in 1 .. Len(state_2.byUuid) |-> Created_(state_2.byUuid[i])])

make_game_state_partial(current_state, next_state) ==
    LET state_diffs == get_state_diff(current_state, next_state)
    IN  [modified |-> Concat([i \in 1 .. Len(state_diffs) |->
                                IF state_diffs[i].second # NoneRecord
                                THEN << state_diffs[i].second >> ELSE <<>>]),
         removed  |-> Concat([i \in 1 .. Len(state_diffs) |->
                                IF state_diffs[i].second = NoneRecord
                                THEN << state_diffs[i].uuid >> ELSE <<>>])]

\* The uuids of the records of a snapshot
uuidsOf(state) == {state.game_state[i].uuid : i \in 1 .. Len(state.game_state)}

recordOf(state, uuid) == atUuid(make_state_for_comprison(state.game_state), uuid)

\* The records of the second snapshot that the partial diff is to list: those
\* of the objects that were created, and of those whose properties or children
\* are not the ones of the first snapshot
changedRecords(state_1, state_2) ==
    {recordOf(state_2, u) : u \in
        {v \in uuidsOf(state_2) :
            \/ v \notin uuidsOf(state_1)
            \/ recordOf(state_1, v).properties # recordOf(state_2, v).properties
            \/ sortedDiffer(recordOf(state_1, v).contains, recordOf(state_2, v).contains)}}

\* The partial diff of the two snapshots lists exactly the changed records and
\* the uuids that are gone
ExactDiff(state_1, state_2) ==
    LET diffs == make_game_state_partial(state_1, state_2)
    IN  /\ Range(diffs.modified) = changedRecords(state_1, state_2)
        /\ Len(diffs.modified) = Cardinality(changedRecords(state_1, state_2))
        /\ Range(diffs.removed) = uuidsOf(state_1) \ uuidsOf(state_2)
        /\ Len(diffs.removed) = Cardinality(uuidsOf(state_1) \ uuidsOf(state_2))

\* The snapshots before and after the step of the command
snapshotsAround(c) ==
    LET r == step(World, possibleActions, session, score, gameOver, gameWon, c)
    IN  [before |-> make_game_state(get_state(World)),
         after  |-> make_game_state(get_state(r.w)),
         taken  |-> ~ r.bounded /\ ~ r.raises]

\* C22 for the steps that create no object: the partial diff of the snapshots
\* before and after the step lists exactly the changed records and the removed
\* uuids.
C22_PartialDiffWithoutCreation ==
    \A c \in Cycle_Commands :
        LET s == snapshotsAround(c)
        IN  (s.taken /\ uuidsOf(s.after) \subseteq uuidsOf(s.before))
                => ExactDiff(s.before, s.after)

\* Soap has just been squirted into the dishwasher: the step created an object
C22_Witness ==
    /\ observationStr = "You squirt some dish soap into the dishwasher."
    /\ \E o \in Created : classOf[o] = "Soap" /\ parentContainer[o] = TheDishWasher

\* C22: the modified list of the partial diff of two snapshots holds exactly
\* the records, in the second snapshot, of the objects that were created or
\* whose properties or children changed, and its removed list exactly the
\* uuids of the first snapshot that the second does not have.
C22_PartialDiff ==
    \A c \in Cycle_Commands :
        LET s == snapshotsAround(c)
        IN  s.taken => ExactDiff(s.before, s.after)

-----------------------------------------------------------------------------
(* The balance scale *)

TheScale == CHOOSE o \in Ids : classOf[o] = "BalanceScale"

\* The objects on a side of the scale, and the sum of their weights
OnSide(side) == Range(contains[side])

RECURSIVE TotalWeight(_)
TotalWeight(objs) ==
    IF objs = {} THEN 0
    ELSE LET o == CHOOSE x \in objs : TRUE
         IN  properties[o].weight + TotalWeight(objs \ {o})

\* The description of the scale with the sentence "The scale is in balance."
ReportsBalance ==
    BalanceScale_makeDescriptionStr(World, TheScale).str
        = "a " \o name[TheScale] \o " with two plates. The scale is in balance."
          \o " The left plate " \o makeOneSideDescription(World, BalanceScale_left(TheScale))
          \o ". The right plate " \o makeOneSideDescription(World, BalanceScale_right(TheScale))
          \o "."

\* Every object on the scale has a weight
Weighable ==
    \A o \in OnSide(BalanceScale_left(TheScale)) \cup OnSide(BalanceScale_right(TheScale)) :
        hasProperty(World, o, "weight")

\* C23: the description of the scale reports balance exactly when the weights
\* on the left side and those on the right side have the same sum; with the
\* cube of 7 g on the left and the weights of 5 g and 2 g on the right it
\* reports balance.
C23_BalanceWhenEqual ==
    /\ Weighable =>
          (ReportsBalance <=>
             TotalWeight(OnSide(BalanceScale_left(TheScale)))
               = TotalWeight(OnSide(BalanceScale_right(TheScale))))
    /\ (/\ OnSide(BalanceScale_left(TheScale)) = {10}
        /\ OnSide(BalanceScale_right(TheScale)) = {7, 8}) => ReportsBalance

\* The cube is on the left side, the weights of 5 g and 2 g are on the right
\* side, and the look that followed said that the scale is in balance
C23_Witness ==
    /\ contains[BalanceScale_left(TheScale)] = <<10>>
    /\ contains[BalanceScale_right(TheScale)] = <<8, 7>>
    /\ properties[10].weight = 7
    /\ observationStr = Balance_makeDescriptionStr(World)
    /\ ReportsBalance

\* The observation of actionAnswer
Believe(k) == "You believe the cube weighs " \o ToString(k) \o "g."

\* C24: after the step of a command answer <k>g of the catalog, gameWon is true
\* and the score is 1 exactly when k is the weight of the cube.
C24_AnswerWinsWhenRight ==
    [][\A k \in 1 .. max_mass :
         observationStr' = Believe(k) =>
            ((gameWon' = TRUE /\ score' = 1) <=> k = session.cube_weight)]_vars

\* The cube of 7 g has been answered with 7g: the game is won with score 1
C24_Witness ==
    /\ observationStr = Believe(7)
    /\ session.cube_weight = 7
    /\ gameWon = TRUE /\ score = 1 /\ gameOver = TRUE

-----------------------------------------------------------------------------
(* The catalog built twice from the same objects *)

-----------------------------------------------------------------------------
(* The score computed twice *)

\* calculateScore of the game of the session, called in the state as it is
calculateScoreAgain ==
    IF "numStartingDirtyDishes" \in DOMAIN session
    THEN calculateScore(World, session, gameOver, gameWon)
    ELSE IF "numFoodsToPutInFridge" \in DOMAIN session
    THEN Refrigerate_calculateScore(World, session)
    ELSE IF "cube_weight" \in DOMAIN session
    THEN Balance_calculateScore(session, gameOver, gameWon)
    ELSE Volume_calculateScore(session, gameOver, gameWon)

\* C26: in every reachable state, which the constructor or a step has left
\* after its call of calculateScore, another call of calculateScore yields the
\* score, gameOver and gameWon of the state.
C26_ScoreTwiceIsScoreOnce ==
    calculateScoreAgain = [score |-> score, gameOver |-> gameOver, gameWon |-> gameWon]

\* A step has won the game with a score below the number of dirty dishes, and
\* a second call of calculateScore wins it again with that score
C26_Witness ==
    /\ gameOver = TRUE /\ gameWon = TRUE
    /\ observationStr # World_makeDescriptionStr(World)
    /\ calculateScoreAgain.gameWon = TRUE
    /\ calculateScoreAgain.score = score

-----------------------------------------------------------------------------
(* Devices turned on and off *)

\* The devices that can be turned on and off
Activatable ==
    {o \in Created : /\ getProperty(World, o, "isDevice", TRUE)
                     /\ getProperty(World, o, "isActivatable", TRUE)}

\* The handler changed isOn of the device to the value, and nothing else
SetsIsOn(r, o, value) ==
    /\ r.success
    /\ r.w = [World EXCEPT !.properties[o].isOn = value]

\* The handler refused with the observation and changed no object
Refuses(r, obs) ==
    /\ ~ r.success
    /\ r.obs = obs
    /\ r.w = World

\* A dishwasher that is open
OpenDishWasher(o) == classOf[o] = "DishWasher" /\ properties[o].isOpen

\* turn off on a device that is on, and either command on a device that is in
\* the state it asks for
TurnOffAndRepeats(o) ==
    /\ properties[o].isOn
          => /\ SetsIsOn(actionTurnOff(World, o), o, FALSE)
             /\ Refuses(actionTurnOn(World, o),
                        "The " \o getReferents(World, o)[1] \o " is already on.")
    /\ ~ properties[o].isOn
          => Refuses(actionTurnOff(World, o),
                     "The " \o getReferents(World, o)[1] \o " is already off.")

-----------------------------------------------------------------------------
(* After the end of the game *)

\* C28: once gameOver is true, no step changes the score or gameWon.
C28_FinishedIsFinal ==
    [][gameOver = TRUE => (score' = score /\ gameWon' = gameWon)]_vars

-----------------------------------------------------------------------------
(* Winning the dishwasher game; the range of its score *)

\* The dishes of the session, below the root or not, that are dirty
DirtyDishes == {o \in Created : classOf[o] = "Dish" /\ properties[o].isDirty = TRUE}

\* C29: gameWon is true only in states where no dish created in the session
\* is dirty.
C29_WonOnlyWhenAllClean == gameWon = TRUE => DirtyDishes = {}

\* C30: in every state the score is between 0 and the number of dishes that
\* were dirty at the start.
C30_ScoreWithinRange == score \in 0 .. session.numStartingDirtyDishes

-----------------------------------------------------------------------------
(* Taking from inside a closed container *)

\* The containers that are closed before and after the step
StaysClosed == Closed(World) \cap Closed(World')

\* C31: no step moves into the inventory an object that is inside a container,
\* at any depth, that is closed before and after the step.
C31_NoTakeFromInsideClosed ==
    [][\A c \in StaysClosed : \A o \in Ids :
         Below(World, c, o, MaxUUID) => parentContainer'[o] # Agent]_vars

\* C31 for the children of the closed container: no step moves into the
\* inventory an object whose parent is closed before and after the step.
C31_NoTakeOfChildOfClosed ==
    [][\A c \in StaysClosed : \A o \in Range(contains[c]) :
         parentContainer'[o] # Agent]_vars

\* The take of a dish that is a child of the closed dishwasher was refused
C31_Witness ==
    /\ observationStr = "The " \o Dishwasher \o " is closed, so things can't be removed from it."
    /\ TheDishWasher \in Closed(World)
    /\ \E o \in Range(contains[TheDishWasher]) : classOf[o] = "Dish"

-----------------------------------------------------------------------------
(* Two sessions and the counter of the module *)

\* The commands of the catalog whose handler creates an object
Creating ==
    {c \in DOMAIN possibleActions : step_action(World, possibleActions, c).w.UUID > UUID}

\* C32: with a second session constructed in the process, an object that a
\* step of the first session creates receives an id, the value of the counter,
\* that no object of the first session holds.
C32_NewIdsAreFresh == Creating # {} => classOf[UUID] = "None"

-----------------------------------------------------------------------------
(* The dishwasher: washing, the door, the cycle *)

\* The dishes that the step made clean
MadeClean ==
    {d \in Created : /\ classOf[d] = "Dish"
                     /\ properties[d].isDirty = TRUE
                     /\ properties'[d].isDirty = FALSE}

\* In the objects w the dish is inside a dishwasher that is on and has soap
\* inside it
InRunningWasherWithSoap(w, d) ==
    \E washer \in Created :
        /\ w.classOf[washer] = "DishWasher"
        /\ w.properties[washer].isOn = TRUE
        /\ d \in Inside(w, washer, "Dish")
        /\ Inside(w, washer, "Soap") # {}

\* C33: a step makes a dirty dish clean only in its tick, and only a dish that
\* at the start of the tick is inside a dishwasher that is on and has soap
\* inside it: the handler of the command leaves the dish dirty.
C33_CleanOnlyByWashingWithSoap ==
    [][\A d \in MadeClean :
         \E c \in Cycle_Commands :
            LET acted == step_action(World, possibleActions, c).w
            IN  /\ doWorldTick(acted) = World'
                /\ acted.properties[d].isDirty = TRUE
                /\ InRunningWasherWithSoap(acted, d)]_vars

\* The pot has been washed: it is clean and inside the dishwasher, from which
\* the soap is gone
C33_Witness ==
    /\ properties[4].isDirty = FALSE
    /\ 4 \in Inside(World, TheDishWasher, "Dish")
    /\ Inside(World, TheDishWasher, "Soap") = {}

\* The dishwashers of the session
DishWashers == {o \in Created : classOf[o] = "DishWasher"}

\* C34: after every step no dishwasher is both open and on.
C34_NeverOpenAndOn ==
    \A o \in DishWashers : ~ (properties[o].isOpen = TRUE /\ properties[o].isOn = TRUE)

\* The dishwasher was opened by the last command and is off, with dishes in it
\* that a cycle cut short by the opening or a finished one has washed
C34_Witness ==
    /\ observationStr = "The " \o Dishwasher \o " is now open."
    /\ properties[TheDishWasher].isOpen = TRUE
    /\ properties[TheDishWasher].isOn = FALSE
    /\ Inside(World, TheDishWasher, "Dish") # {}
    /\ DirtyInside(World, TheDishWasher) = {}

\* C35: after every step a dishwasher that is off is at stage 0 of its cycle.
C35_OffIsIdle ==
    \A o \in DishWashers : properties[o].isOn = FALSE => properties[o].cycleStage = 0

-----------------------------------------------------------------------------
(* The egg that got cold *)

TheEgg == CHOOSE o \in Ids : classOf[o] = "Bird"

\* The egg has not hatched and its warmth is 0
ColdEgg == properties[TheEgg].stage = "egg" /\ properties[TheEgg].warm = 0

Lost == gameOver = TRUE /\ gameWon = FALSE

\* The egg or the young bird has been followed for as many ticks as the model
\* follows it
Bird_Bounded ==
    \/ properties[TheEgg].stage = "egg" /\ properties[TheEgg].hatch >= MaxHatch
    \/ properties[TheEgg].stage = "young bird" /\ properties[TheEgg].grow >= MaxGrow

\* C36: when the warmth of the egg reaches 0 before it hatches, the game is
\* lost later on, gameOver true and gameWon false, in every session that is
\* played on within the ticks the model follows.
C36_ColdEggLosesTheGame == ColdEgg ~> (Lost \/ Bird_Bounded)

\* The nail and the hammer of the hang-painting game, and a step that leaves the
\* nail on a wall it was not on
NailId == CHOOSE o \in Ids : classOf[o] = "Nail"
HammerId == CHOOSE o \in Ids : classOf[o] = "Hammer"
NailAttached == classOf[parentContainer[NailId]] # "Wall" /\ classOf'[parentContainer'[NailId]] = "Wall"

\* C37: in the hang-painting game a step attaches the nail to a wall only if
\* both the nail and the hammer are in the agent's inventory before the step.
C37_HammerNeedsNailAndHammer ==
    [][NailAttached => (parentContainer[NailId] = Agent /\ parentContainer[HammerId] = Agent)]_vars

\* The part of C37 that the game keeps: the nail is in the inventory
C37_HammerNeedsNail == [][NailAttached => parentContainer[NailId] = Agent]_vars
C37_Witness ==
    /\ observationStr = "The " \o TheNail \o " is hammered on the " \o RightWall \o "."
    /\ parentContainer[HammerId] = RootObject

\* The water containers and the volume of the Water objects in a child list
WaterContainers == {o \in Created : getProperty(World, o, "isWaterContainer", TRUE)}
RECURSIVE WaterVolume(_)
WaterVolume(objs) ==
    IF objs = <<>> THEN 0
    ELSE (IF classOf[Head(objs)] = "Water" THEN properties[Head(objs)].volume ELSE 0)
         + WaterVolume(Tail(objs))

\* C38: in the volume-container game, after every step the volumes of the
\* Water objects directly inside a water container add up to no more than the
\* container's own volume.
C38_WaterFitsContainer ==
    \A c \in WaterContainers : WaterVolume(contains[c]) <= properties[c].volume

FocusedOnWrongPlane ==
    /\ session.agent_answer # None
    /\ session.agent_answer # session.answer

\* C39: in the inclined-plane game the score is 1 only if the plane the agent
\* focused on is the correct answer; after a focus on the wrong plane the game
\* is over with score 0 and reward 0.
C39_ScoreOnlyForCorrectPlane ==
    /\ score = 1 => session.agent_answer = session.answer
    /\ FocusedOnWrongPlane /\ observationStr = "You focus on the " \o name[session.agent_answer] \o "."
         => (gameOver = TRUE /\ score = 0 /\ reward = 0)

\* C40: after any sequence of steps, every object listed in the child list of an
\* object has that object as its parent.
C40_ChildrenPointToParent ==
    \A p \in Created : \A o \in Range(contains[p]) : parentContainer[o] = p

====
